---------------------------- MODULE Spec2Model ----------------------------
(***************************************************************************)
(* A model of the bit-sliced AES block cipher (crypto/src/block/aes/safe)  *)
(* and of the bcrypt driver (src/kdf/bcrypt.rs).                           *)
(*                                                                         *)
(* A byte is a natural in 0..255 and a u16 a natural in 0..65535.  A u32   *)
(* is the tuple <<b0, b1, b2, b3>> of its four bytes, b0 the least         *)
(* significant (the model checker's integers are narrower than a u32).     *)
(* A Gf8<u16> is the tuple <<x0, ..., x7>> of its eight lanes.             *)
(***************************************************************************)
EXTENDS Integers, Sequences, FiniteSets, TLC

-----------------------------------------------------------------------------
(* Machine words *)

\* The operators ^, & and | of std::ops on naturals.
RECURSIVE XorNat(_, _)
XorNat(a, b) ==
    IF a = 0 THEN b
    ELSE IF b = 0 THEN a
    ELSE 2 * XorNat(a \div 2, b \div 2) + ((a + b) % 2)

RECURSIVE AndNat(_, _)
AndNat(a, b) ==
    IF a = 0 \/ b = 0 THEN 0
    ELSE 2 * AndNat(a \div 2, b \div 2) + ((a % 2) * (b % 2))

RECURSIVE OrNat(_, _)
OrNat(a, b) ==
    IF a = 0 THEN b
    ELSE IF b = 0 THEN a
    ELSE 2 * OrNat(a \div 2, b \div 2) + (IF (a % 2) + (b % 2) > 0 THEN 1 ELSE 0)

\* <<, >> and rotate_right on u16 (0 <= n < 16).
Shl16(x, n) == (x * 2^n) % 65536
Shr16(x, n) == x \div 2^n
RotR16(x, n) == (x \div 2^n) + ((x % 2^n) * 2^(16 - n))

\* The u32 whose value is the natural n (n < 2^31).
U32(n) == << n % 256, (n \div 256) % 256, (n \div 65536) % 256, n \div 16777216 >>

\* Bit i (0 = least significant) of a u32.
Bit32(x, i) == (x[(i \div 8) + 1] \div 2^(i % 8)) % 2

\* ^, & and | on u32.
BitOr32(a, b) ==
    << OrNat(a[1], b[1]), OrNat(a[2], b[2]), OrNat(a[3], b[3]), OrNat(a[4], b[4]) >>
BitXor32(a, b) ==
    << XorNat(a[1], b[1]), XorNat(a[2], b[2]), XorNat(a[3], b[3]), XorNat(a[4], b[4]) >>
BitAnd32(a, b) ==
    << AndNat(a[1], b[1]), AndNat(a[2], b[2]), AndNat(a[3], b[3]), AndNat(a[4], b[4]) >>

\* Byte k (1..4) of x << n and of x >> n, for 0 <= n < 32: the byte q = n / 8
\* places away shifted by r = n % 8, with the r bits carried in from its
\* neighbour.
ShlByte(x, n, k) ==
    LET q == n \div 8
        r == n % 8
        cur == IF k - q >= 1 THEN x[k - q] ELSE 0
        low == IF k - q - 1 >= 1 THEN x[k - q - 1] ELSE 0
    IN  ((cur * 2^r) % 256) + (low \div 2^(8 - r))
ShrByte(x, n, k) ==
    LET q == n \div 8
        r == n % 8
        cur == IF k + q <= 4 THEN x[k + q] ELSE 0
        high == IF k + q + 1 <= 4 THEN x[k + q + 1] ELSE 0
    IN  (cur \div 2^r) + ((high * 2^(8 - r)) % 256)

Shl32(x, n) == << ShlByte(x, n, 1), ShlByte(x, n, 2), ShlByte(x, n, 3), ShlByte(x, n, 4) >>
Shr32(x, n) == << ShrByte(x, n, 1), ShrByte(x, n, 2), ShrByte(x, n, 3), ShrByte(x, n, 4) >>

\* rotate_right and rotate_left on u32 (0 <= n < 32).
RotR32(x, n) == IF n = 0 THEN x ELSE BitXor32(Shr32(x, n), Shl32(x, 32 - n))
RotL32(x, n) == IF n = 0 THEN x ELSE BitXor32(Shl32(x, n), Shr32(x, 32 - n))

\* u32 multiplication, wrapping at 2^32 (schoolbook on the four bytes).
WrappingMul32(a, b) ==
    LET s1 == a[1]*b[1]
        s2 == a[1]*b[2] + a[2]*b[1] + (s1 \div 256)
        s3 == a[1]*b[3] + a[2]*b[2] + a[3]*b[1] + (s2 \div 256)
        s4 == a[1]*b[4] + a[2]*b[3] + a[3]*b[2] + a[4]*b[1] + (s3 \div 256)
    IN  << s1 % 256, s2 % 256, s3 % 256, s4 % 256 >>

\* LittleEndian::read_u32 of the four bytes data[at+1..at+4] (data 1-indexed).
ReadU32LE(data, at) == << data[at + 1], data[at + 2], data[at + 3], data[at + 4] >>

\* LittleEndian::write_u32: the four bytes written for x, in buffer order.
WriteU32LE(x) == << x[1], x[2], x[3], x[4] >>

\* BigEndian::write_u32: the four bytes written for x, in buffer order.
WriteU32BE(x) == << x[4], x[3], x[2], x[1] >>

\* <<v, ..., v>> of length n.
RECURSIVE Repeat(_, _)
Repeat(v, n) == IF n = 0 THEN <<>> ELSE Append(Repeat(v, n - 1), v)

-----------------------------------------------------------------------------
(* The S-box of the finite-field module (gf.rs): x |-> A * x^-1 + 0x63 over *)
(* GF(2^8) modulo x^8 + x^4 + x^3 + x + 1.                                  *)

\* Multiplication by x (02) in GF(2^8), and the product of a and b.
GfDouble(b) == IF 2*b >= 256 THEN XorNat(2*b - 256, 27) ELSE 2*b

RECURSIVE GfMul(_, _)
GfMul(a, b) ==
    IF b = 0 THEN 0
    ELSE XorNat(IF b % 2 = 1 THEN a ELSE 0, GfMul(GfDouble(a), b \div 2))

\* b^-1 = b^254 (and 0 for b = 0).
GfInverse(b) ==
    LET b2 == GfMul(b, b)
        b4 == GfMul(b2, b2)
        b8 == GfMul(b4, b4)
        b16 == GfMul(b8, b8)
        b32 == GfMul(b16, b16)
        b64 == GfMul(b32, b32)
        b128 == GfMul(b64, b64)
    IN  GfMul(GfMul(GfMul(b2, b4), GfMul(b8, b16)), GfMul(GfMul(b32, b64), b128))

\* The affine map of the S-box: b + rotl(b,1) + rotl(b,2) + rotl(b,3) + rotl(b,4) + 0x63.
RotL8(b, n) == ((b * 2^n) % 256) + (b \div 2^(8 - n))
SBoxAffine(b) ==
    XorNat(XorNat(XorNat(b, RotL8(b, 1)), XorNat(RotL8(b, 2), RotL8(b, 3))),
           XorNat(RotL8(b, 4), 99))

SBox == [b \in 0..255 |-> SBoxAffine(GfInverse(b))]
InvSBox == [c \in 0..255 |-> CHOOSE b \in 0..255 : SBox[b] = c]

\* The byte held at lane position p (0..15) of a bit-sliced state.
GfByteAt(s, p) ==
    ((s[1] \div 2^p) % 2) + 2 * ((s[2] \div 2^p) % 2) + 4 * ((s[3] \div 2^p) % 2)
    + 8 * ((s[4] \div 2^p) % 2) + 16 * ((s[5] \div 2^p) % 2) + 32 * ((s[6] \div 2^p) % 2)
    + 64 * ((s[7] \div 2^p) % 2) + 128 * ((s[8] \div 2^p) % 2)

\* Lane k (0..7) of the bit-sliced state holding the bytes v[1..16]
\* (v[p + 1] at lane position p): bit k of the four bytes from position p.
GfLane4(v, k, p) ==
    ((v[p + 1] \div 2^k) % 2) + 2 * ((v[p + 2] \div 2^k) % 2)
    + 4 * ((v[p + 3] \div 2^k) % 2) + 8 * ((v[p + 4] \div 2^k) % 2)

GfLane(v, k) ==
    GfLane4(v, k, 0) + 16 * GfLane4(v, k, 4) + 256 * GfLane4(v, k, 8)
    + 4096 * GfLane4(v, k, 12)

GfOfBytes(v) ==
    << GfLane(v, 0), GfLane(v, 1), GfLane(v, 2), GfLane(v, 3),
       GfLane(v, 4), GfLane(v, 5), GfLane(v, 6), GfLane(v, 7) >>

\* The bytes of s at the lane positions 0..15, each mapped through the table t.
GfMapBytes(s, t) ==
    << t[GfByteAt(s, 0)], t[GfByteAt(s, 1)], t[GfByteAt(s, 2)], t[GfByteAt(s, 3)],
       t[GfByteAt(s, 4)], t[GfByteAt(s, 5)], t[GfByteAt(s, 6)], t[GfByteAt(s, 7)],
       t[GfByteAt(s, 8)], t[GfByteAt(s, 9)], t[GfByteAt(s, 10)], t[GfByteAt(s, 11)],
       t[GfByteAt(s, 12)], t[GfByteAt(s, 13)], t[GfByteAt(s, 14)], t[GfByteAt(s, 15)] >>

-----------------------------------------------------------------------------
(* Bit slicing of one block (narrow backend) *)

\* pb of bit_slice_4x4_with_u16: (((x >> bit) & 1) as u16) << shift.
pb_u16(x, bit, shift) == Shl16(Bit32(x, bit), shift)

\* construct with the bytes of a, b, c, d taken column by column: byte j of
\* the block at bit j.
construct_column_major(a, b, c, d, bit) ==
    OrNat(
      OrNat(OrNat(OrNat(pb_u16(a, bit, 0), pb_u16(a, bit + 8, 1)), pb_u16(a, bit + 16, 2)),
            pb_u16(a, bit + 24, 3)),
      OrNat(
        OrNat(OrNat(OrNat(pb_u16(b, bit, 4), pb_u16(b, bit + 8, 5)),
                    pb_u16(b, bit + 16, 6)), pb_u16(b, bit + 24, 7)),
        OrNat(
          OrNat(OrNat(OrNat(pb_u16(c, bit, 8), pb_u16(c, bit + 8, 9)),
                      pb_u16(c, bit + 16, 10)), pb_u16(c, bit + 24, 11)),
          OrNat(OrNat(OrNat(pb_u16(d, bit, 12), pb_u16(d, bit + 8, 13)),
                      pb_u16(d, bit + 16, 14)), pb_u16(d, bit + 24, 15)))))

\* The sixteen pb terms are or-ed in groups of four.
construct(a, b, c, d, bit) ==
    OrNat(
      OrNat(OrNat(OrNat(pb_u16(a, bit, 0), pb_u16(b, bit, 1)), pb_u16(c, bit, 2)),
            pb_u16(d, bit, 3)),
      OrNat(
        OrNat(OrNat(OrNat(pb_u16(a, bit + 8, 4), pb_u16(b, bit + 8, 5)),
                    pb_u16(c, bit + 8, 6)), pb_u16(d, bit + 8, 7)),
        OrNat(
          OrNat(OrNat(OrNat(pb_u16(a, bit + 16, 8), pb_u16(b, bit + 16, 9)),
                      pb_u16(c, bit + 16, 10)), pb_u16(d, bit + 16, 11)),
          OrNat(OrNat(OrNat(pb_u16(a, bit + 24, 12), pb_u16(b, bit + 24, 13)),
                      pb_u16(c, bit + 24, 14)), pb_u16(d, bit + 24, 15)))))

bit_slice_4x4_with_u16(a, b, c, d) ==
    << construct(a, b, c, d, 0), construct(a, b, c, d, 1),
       construct(a, b, c, d, 2), construct(a, b, c, d, 3),
       construct(a, b, c, d, 4), construct(a, b, c, d, 5),
       construct(a, b, c, d, 6), construct(a, b, c, d, 7) >>

bit_slice_4x1_with_u16(a) == bit_slice_4x4_with_u16(a, U32(0), U32(0), U32(0))

\* data is a sequence of 16 bytes.
bit_slice_1x16_with_u16(data) ==
    bit_slice_4x4_with_u16(ReadU32LE(data, 0), ReadU32LE(data, 4),
                           ReadU32LE(data, 8), ReadU32LE(data, 12))

\* pb of un_bit_slice_4x4_with_u16: (((x >> bit) & 1) as u32) << shift.
pb_u32(x, bit, shift) == Shl32(U32((x \div 2^bit) % 2), shift)

\* The | of the eight terms pb(x0, bit + 4*j, 8*j) ... pb(x7, bit + 4*j, 8*j + 7).
deconstruct_byte(bs, bit, j) ==
    BitOr32(
      BitOr32(BitOr32(pb_u32(bs[1], bit + 4*j, 8*j), pb_u32(bs[2], bit + 4*j, 8*j + 1)),
              BitOr32(pb_u32(bs[3], bit + 4*j, 8*j + 2), pb_u32(bs[4], bit + 4*j, 8*j + 3))),
      BitOr32(BitOr32(pb_u32(bs[5], bit + 4*j, 8*j + 4), pb_u32(bs[6], bit + 4*j, 8*j + 5)),
              BitOr32(pb_u32(bs[7], bit + 4*j, 8*j + 6), pb_u32(bs[8], bit + 4*j, 8*j + 7))))

deconstruct(bs, bit) ==
    BitOr32(BitOr32(deconstruct_byte(bs, bit, 0), deconstruct_byte(bs, bit, 1)),
            BitOr32(deconstruct_byte(bs, bit, 2), deconstruct_byte(bs, bit, 3)))

un_bit_slice_4x4_with_u16(bs) ==
    << deconstruct(bs, 0), deconstruct(bs, 1), deconstruct(bs, 2), deconstruct(bs, 3) >>

un_bit_slice_4x1_with_u16(bs) == un_bit_slice_4x4_with_u16(bs)[1]

\* The 16 bytes written with BigEndian::write_u32.
un_bit_slice_1x16_big_endian(bs) ==
    LET w == un_bit_slice_4x4_with_u16(bs)
    IN  WriteU32BE(w[1]) \o WriteU32BE(w[2]) \o WriteU32BE(w[3]) \o WriteU32BE(w[4])

\* The 16 bytes written to output.
un_bit_slice_1x16_with_u16(bs) ==
    LET w == un_bit_slice_4x4_with_u16(bs)
    IN  WriteU32LE(w[1]) \o WriteU32LE(w[2]) \o WriteU32LE(w[3]) \o WriteU32LE(w[4])

-----------------------------------------------------------------------------
(* AesBitValueOps for u16 *)

\* shift_row with the row-1 rotation taken in the direction of inv_shift_row.
shift_row_row1_reversed(x) ==
    OrNat(OrNat(OrNat(OrNat(OrNat(OrNat(
        AndNat(x, \h000f),
        Shr16(AndNat(x, \h0080), 3)),
        Shl16(AndNat(x, \h0070), 1)),
        Shr16(AndNat(x, \h0c00), 2)),
        Shl16(AndNat(x, \h0300), 2)),
        Shr16(AndNat(x, \h8000), 3)),
        Shl16(AndNat(x, \h7000), 1))

\* shift_row with row 2 left where it is.
shift_row_row2_unmoved(x) ==
    OrNat(OrNat(OrNat(OrNat(
        AndNat(x, \h0f0f),
        Shr16(AndNat(x, \h00e0), 1)),
        Shl16(AndNat(x, \h0010), 3)),
        Shr16(AndNat(x, \h8000), 3)),
        Shl16(AndNat(x, \h7000), 1))

shift_row(x) ==
    OrNat(OrNat(OrNat(OrNat(OrNat(OrNat(
        AndNat(x, \h000f),
        Shr16(AndNat(x, \h00e0), 1)),
        Shl16(AndNat(x, \h0010), 3)),
        Shr16(AndNat(x, \h0c00), 2)),
        Shl16(AndNat(x, \h0300), 2)),
        Shr16(AndNat(x, \h8000), 3)),
        Shl16(AndNat(x, \h7000), 1))

\* inv_shift_row moving the rows the way shift_row does.
inv_shift_row_forward(x) == shift_row(x)

inv_shift_row(x) ==
    OrNat(OrNat(OrNat(OrNat(OrNat(OrNat(
        AndNat(x, \h000f),
        Shr16(AndNat(x, \h0080), 3)),
        Shl16(AndNat(x, \h0070), 1)),
        Shr16(AndNat(x, \h0c00), 2)),
        Shl16(AndNat(x, \h0300), 2)),
        Shr16(AndNat(x, \he000), 1)),
        Shl16(AndNat(x, \h1000), 3))

ror1(x) == RotR16(x, 4)
ror2(x) == RotR16(x, 8)
\* ror3 rotating by one nibble, not by three.
ror3_by_one_nibble(x) == RotR16(x, 12 - 8)

ror3(x) == RotR16(x, 12)

-----------------------------------------------------------------------------
(* AesOps for Gf8<T> *)

\* rebase::<A2X>, inv, rebase::<X2S>, xor_x63: the S-box on every byte.
sub_bytes(s) == GfOfBytes(GfMapBytes(s, SBox))

\* xor_x63, rebase::<S2X>, inv, rebase::<X2A>: the inverse S-box on every byte.
inv_sub_bytes(s) == GfOfBytes(GfMapBytes(s, InvSBox))

shift_rows(s) ==
    << shift_row(s[1]), shift_row(s[2]), shift_row(s[3]), shift_row(s[4]),
       shift_row(s[5]), shift_row(s[6]), shift_row(s[7]), shift_row(s[8]) >>

inv_shift_rows(s) ==
    << inv_shift_row(s[1]), inv_shift_row(s[2]), inv_shift_row(s[3]), inv_shift_row(s[4]),
       inv_shift_row(s[5]), inv_shift_row(s[6]), inv_shift_row(s[7]), inv_shift_row(s[8]) >>

\* x ^ y ^ ... of a non-empty tuple of lanes.
RECURSIVE XorAll(_)
XorAll(xs) ==
    IF Len(xs) = 1 THEN xs[1] ELSE XorNat(XorAll(SubSeq(xs, 1, Len(xs) - 1)), xs[Len(xs)])

\* mix_columns with x7 ^ x7.ror1() left out of x1out, x3out and x4out: the
\* doubling without the reduction by the field polynomial.
mix_columns_unreduced(s) ==
    LET x0 == s[1]  x1 == s[2]  x2 == s[3]  x3 == s[4]
        x4 == s[5]  x5 == s[6]  x6 == s[7]  x7 == s[8]
    IN  << XorAll(<<x7, ror1(x7), ror1(x0), ror2(XorNat(x0, ror1(x0)))>>),
           XorAll(<<x0, ror1(x0), ror1(x1), ror2(XorNat(x1, ror1(x1)))>>),
           XorAll(<<x1, ror1(x1), ror1(x2), ror2(XorNat(x2, ror1(x2)))>>),
           XorAll(<<x2, ror1(x2), ror1(x3), ror2(XorNat(x3, ror1(x3)))>>),
           XorAll(<<x3, ror1(x3), ror1(x4), ror2(XorNat(x4, ror1(x4)))>>),
           XorAll(<<x4, ror1(x4), ror1(x5), ror2(XorNat(x5, ror1(x5)))>>),
           XorAll(<<x5, ror1(x5), ror1(x6), ror2(XorNat(x6, ror1(x6)))>>),
           XorAll(<<x6, ror1(x6), ror1(x7), ror2(XorNat(x7, ror1(x7)))>>) >>

mix_columns(s) ==
    LET x0 == s[1]  x1 == s[2]  x2 == s[3]  x3 == s[4]
        x4 == s[5]  x5 == s[6]  x6 == s[7]  x7 == s[8]
    IN  << XorAll(<<x7, ror1(x7), ror1(x0), ror2(XorNat(x0, ror1(x0)))>>),
           XorAll(<<x0, ror1(x0), x7, ror1(x7), ror1(x1), ror2(XorNat(x1, ror1(x1)))>>),
           XorAll(<<x1, ror1(x1), ror1(x2), ror2(XorNat(x2, ror1(x2)))>>),
           XorAll(<<x2, ror1(x2), x7, ror1(x7), ror1(x3), ror2(XorNat(x3, ror1(x3)))>>),
           XorAll(<<x3, ror1(x3), x7, ror1(x7), ror1(x4), ror2(XorNat(x4, ror1(x4)))>>),
           XorAll(<<x4, ror1(x4), ror1(x5), ror2(XorNat(x5, ror1(x5)))>>),
           XorAll(<<x5, ror1(x5), ror1(x6), ror2(XorNat(x6, ror1(x6)))>>),
           XorAll(<<x6, ror1(x6), ror1(x7), ror2(XorNat(x7, ror1(x7)))>>) >>

inv_mix_columns(s) ==
    LET x0 == s[1]  x1 == s[2]  x2 == s[3]  x3 == s[4]
        x4 == s[5]  x5 == s[6]  x6 == s[7]  x7 == s[8]
    IN  << XorAll(<<x5, x6, x7, ror1(XorAll(<<x5, x7, x0>>)),
                    ror2(XorAll(<<x0, x5, x6>>)), ror3(XorAll(<<x5, x0>>))>>),
           XorAll(<<x5, x0, ror1(XorAll(<<x6, x5, x0, x7, x1>>)),
                    ror2(XorAll(<<x1, x7, x5>>)), ror3(XorAll(<<x6, x5, x1>>))>>),
           XorAll(<<x6, x0, x1, ror1(XorAll(<<x7, x6, x1, x2>>)),
                    ror2(XorAll(<<x0, x2, x6>>)), ror3(XorAll(<<x7, x6, x2>>))>>),
           XorAll(<<x0, x5, x1, x6, x2, ror1(XorAll(<<x0, x5, x2, x3>>)),
                    ror2(XorAll(<<x0, x1, x3, x5, x6, x7>>)),
                    ror3(XorAll(<<x0, x5, x7, x3>>))>>),
           XorAll(<<x1, x5, x2, x3, ror1(XorAll(<<x1, x6, x5, x3, x7, x4>>)),
                    ror2(XorAll(<<x1, x2, x4, x5, x7>>)),
                    ror3(XorAll(<<x1, x5, x6, x4>>))>>),
           XorAll(<<x2, x6, x3, x4, ror1(XorAll(<<x2, x7, x6, x4, x5>>)),
                    ror2(XorAll(<<x2, x3, x5, x6>>)), ror3(XorAll(<<x2, x6, x7, x5>>))>>),
           XorAll(<<x3, x7, x4, x5, ror1(XorAll(<<x3, x7, x5, x6>>)),
                    ror2(XorAll(<<x3, x4, x6, x7>>)), ror3(XorAll(<<x3, x7, x6>>))>>),
           XorAll(<<x4, x5, x6, ror1(XorAll(<<x4, x6, x7>>)),
                    ror2(XorAll(<<x4, x5, x7>>)), ror3(XorAll(<<x4, x7>>))>>) >>

\* self + *rk: the sum of GF(2^8) elements is the lane-wise xor.
add_round_key(s, rk) ==
    << XorNat(s[1], rk[1]), XorNat(s[2], rk[2]), XorNat(s[3], rk[3]), XorNat(s[4], rk[4]),
       XorNat(s[5], rk[5]), XorNat(s[6], rk[6]), XorNat(s[7], rk[7]), XorNat(s[8], rk[8]) >>

-----------------------------------------------------------------------------
(* Key schedule *)

ffmulx(x) ==
    LET m1 == << \h80, \h80, \h80, \h80 >>
        m2 == << \h7f, \h7f, \h7f, \h7f >>
        m3 == U32(\h1b)
    IN  BitXor32(Shl32(BitAnd32(x, m2), 1), WrappingMul32(Shr32(BitAnd32(x, m1), 7), m3))

\* inv_mcol with the three rotations to the left.
inv_mcol_rotating_left(x) ==
    LET f2 == ffmulx(x)
        f4 == ffmulx(f2)
        f8 == ffmulx(f4)
        f9 == BitXor32(x, f8)
    IN  BitXor32(BitXor32(BitXor32(BitXor32(BitXor32(f2, f4), f8),
            RotL32(BitXor32(f2, f9), 8)), RotL32(BitXor32(f4, f9), 16)), RotL32(f9, 24))

inv_mcol(x) ==
    LET f2 == ffmulx(x)
        f4 == ffmulx(f2)
        f8 == ffmulx(f4)
        f9 == BitXor32(x, f8)
    IN  BitXor32(BitXor32(BitXor32(BitXor32(BitXor32(f2, f4), f8),
            RotR32(BitXor32(f2, f9), 8)), RotR32(BitXor32(f4, f9), 16)), RotR32(f9, 24))

sub_word(x) == un_bit_slice_4x1_with_u16(sub_bytes(bit_slice_4x1_with_u16(x)))

RCON == << U32(\h01), U32(\h02), U32(\h04), U32(\h08), U32(\h10),
           U32(\h20), U32(\h40), U32(\h80), U32(\h1b), U32(\h36) >>

\* The match with a catch-all arm that expands any other length as AES-128.
KeyParamsCatchAll(len) ==
    CASE len = 16 -> <<4, 10>>
      [] len = 24 -> <<6, 12>>
      [] len = 32 -> <<8, 14>>
      [] OTHER -> <<4, 10>>

\* The match with one round too many for the 24-byte keys.
KeyParamsOneMoreRound(len) ==
    CASE len = 16 -> <<4, 10>>
      [] len = 24 -> <<6, 13>>
      [] len = 32 -> <<8, 14>>
      [] OTHER -> <<>>

\* match key.len(): <<key_words, rounds>>, or <<>> where the match panics.
KeyParams(len) ==
    CASE len = 16 -> <<4, 10>>
      [] len = 24 -> <<6, 12>>
      [] len = 32 -> <<8, 14>>
      [] OTHER -> <<>>

\* The words of round_keys, numbered from 0: word i is round_keys[i / 4][i % 4].
RkGet(rk, i) == rk[(i \div 4) + 1][(i % 4) + 1]
RkSet(rk, i, v) == [rk EXCEPT ![(i \div 4) + 1][(i % 4) + 1] = v]

\* First loop: the key is copied into the first words (chunks i.. of key).
RECURSIVE CopyKey(_, _, _)
CopyKey(rk, k, n) ==
    IF 4 * n >= Len(k) THEN rk
    ELSE CopyKey(RkSet(rk, n, ReadU32LE(k, 4 * n)), k, n + 1)

\* The word of the second loop without the step of the 32-byte keys.
ExpandWordWithoutNk8Step(rk, n, key_words) ==
    LET prev == RkGet(rk, n - 1)
        t == IF n % key_words = 0
               THEN BitXor32(sub_word(RotR32(prev, 8)), RCON[(n \div key_words) - 1 + 1])
             ELSE prev
    IN  BitXor32(RkGet(rk, n - key_words), t)

\* The word written at index n by the second loop.
ExpandWord(rk, n, key_words) ==
    LET prev == RkGet(rk, n - 1)
        t == IF n % key_words = 0
               THEN BitXor32(sub_word(RotR32(prev, 8)), RCON[(n \div key_words) - 1 + 1])
             ELSE IF key_words = 8 /\ n % key_words = 4
               THEN sub_word(prev)
             ELSE prev
    IN  BitXor32(RkGet(rk, n - key_words), t)

\* Body of the third loop: inv_mcol on every word of one round key.
InvMcolKey(k) == << inv_mcol(k[1]), inv_mcol(k[2]), inv_mcol(k[3]), inv_mcol(k[4]) >>

-----------------------------------------------------------------------------
(* Inputs *)

\* Keys and blocks are drawn from seeded families; seed 0 gives the key
\* 00 01 02 ... and the block 00 11 22 ... ff of FIPS-197 Appendix C.
MaxKeySeed == 1
MaxBlockSeed == 1

KeyLens == {0, 15, 16, 17, 23, 24, 25, 31, 32, 33}
Key(len, seed) == [n \in 1..len |-> ((n - 1) * (2 * seed + 1) + 101 * seed) % 256]
Keys == {Key(len, seed) : len \in KeyLens, seed \in 0..MaxKeySeed}
Block(seed) == [n \in 1..16 |-> ((n - 1) * 17 * (seed + 1) + 89 * seed) % 256]

\* $rounds of AesSafe128*, AesSafe192* and AesSafe256*.
TypeRounds == {10, 12, 14}

-----------------------------------------------------------------------------
(* State *)

VARIABLES
    key,          \* the key handed to new
    rounds,       \* $rounds of the Encryptor / Decryptor types in use
    mode,         \* $mode of the instance under construction
    round_keys,   \* tmp of new: the array create_round_keys fills
    i,            \* loop index of create_round_keys
    enc_sk,       \* sk of the encryptor (<<>>: no instance)
    dec_sk,       \* sk of the decryptor (<<>>: no instance)
    input,        \* input of encrypt_block
    output,       \* output of encrypt_block, input of decrypt_block
    plain,        \* output of decrypt_block
    tmp,          \* bs of encrypt_block / decrypt_block, tmp of the cores
    rnd,          \* index into sk of the subkey the core's loop is at
    ops,          \* the operations the running core has applied, in order
    pc,           \* control position
    \* bcrypt (input and output are its password and its 24-byte buffer)
    cost,         \* cost
    salt,         \* salt
    state,        \* the Blowfish state
    setup_n,      \* the end 1 << cost of the range bcrypt_setup iterates over
    setup_i,      \* iterations of the loop of bcrypt_setup completed
    ctext,        \* the six words of ctext
    chunk,        \* index of the chunk of ctext / output being processed
    enc_i,        \* iterations of the inner loop completed on this chunk
    bf_ops,       \* the Blowfish operations this call has issued, in order
    written,      \* the indices of output this call has written
    prior,        \* output as it was when this call was entered
    first,        \* <<prior, output>> of a first call (<<>>: this is the first)
    \* the wide backend
    sk_x8,        \* sk of the X8 encryptor (<<>>: no instance)
    input_x8,     \* input of encrypt_block_x8
    tmp_x8,       \* bs of encrypt_block_x8, tmp of encrypt_core
    output_x8,    \* output of encrypt_block_x8
    \* the callers
    calls,        \* the calls that have returned: <<method, input, output>>
    threads,      \* the calls in progress on a shared instance, one per thread
    flow          \* what create_round_keys has done: branches taken and indices

aesOnly == << key, rounds, mode, round_keys, i, enc_sk, dec_sk, plain, tmp, rnd, ops >>

bcryptOnly == << cost, salt, state, setup_n, setup_i, ctext, chunk, enc_i, bf_ops,
                 written, prior, first >>

x8Only == << sk_x8, input_x8, tmp_x8, output_x8 >>

vars == << aesOnly, bcryptOnly, input, output, pc, x8Only, calls, threads, flow >>

\* The variables of the program that is not running keep these values.
AesIdle ==
    /\ key = <<>> /\ rounds = 0 /\ mode = "Encryption" /\ round_keys = <<>>
    /\ i = 0 /\ enc_sk = <<>> /\ dec_sk = <<>> /\ plain = <<>> /\ tmp = <<>>
    /\ rnd = 0 /\ ops = <<>>

BcryptIdle ==
    /\ cost = 0 /\ salt = <<>> /\ state = 0 /\ setup_n = 0 /\ setup_i = 0
    /\ ctext = <<>> /\ chunk = 0 /\ enc_i = 0 /\ bf_ops = <<>>
    /\ written = {} /\ prior = <<>> /\ first = <<>>

\* No X8 instance, no call returned, no thread running, no key expanded.
X8Idle ==
    /\ sk_x8 = <<>> /\ input_x8 = <<>> /\ tmp_x8 = <<>> /\ output_x8 = <<>>
    /\ calls = <<>> /\ threads = <<>> /\ flow = <<>>

ZeroBlock == Repeat(0, 16)

InitAes ==
    /\ key \in Keys
    /\ rounds \in TypeRounds
    /\ mode = "Encryption"
    /\ round_keys = <<>>
    /\ i = 0
    /\ enc_sk = <<>>
    /\ dec_sk = <<>>
    /\ input = ZeroBlock
    /\ output = ZeroBlock
    /\ plain = ZeroBlock
    /\ tmp = <<>>
    /\ rnd = 0
    /\ ops = <<>>
    /\ pc = "new"
    /\ BcryptIdle /\ X8Idle

-----------------------------------------------------------------------------
(* $name::new and create_round_keys *)

\* A panic unwinds new: its locals a and tmp are dropped, nothing is returned.
Panic ==
    /\ pc' = "panicked"
    /\ round_keys' = <<>>
    /\ flow' = Append(flow, << "panic" >>)
    /\ UNCHANGED << key, rounds, mode, i, enc_sk, dec_sk, input, output, plain,
                    tmp, rnd, ops >>

\* new: a.sk and tmp are zeroed, create_round_keys is called.
New ==
    /\ pc = "new"
    /\ round_keys' = Repeat(<< U32(0), U32(0), U32(0), U32(0) >>, rounds + 1)
    /\ flow' = <<>>
    /\ pc' = "create_round_keys"
    /\ UNCHANGED << key, rounds, mode, i, enc_sk, dec_sk, input, output, plain,
                    tmp, rnd, ops >>
    /\ UNCHANGED << bcryptOnly, x8Only, calls, threads >>

\* create_round_keys: match key.len().
CrkMatch ==
    /\ pc = "create_round_keys"
    /\ IF KeyParams(Len(key)) = <<>>
         THEN Panic
         ELSE /\ pc' = "copy_key"
              /\ flow' = Append(flow, << "match", KeyParams(Len(key)) >>)
              /\ UNCHANGED << key, rounds, mode, round_keys, i, enc_sk, dec_sk,
                              input, output, plain, tmp, rnd, ops >>
    /\ UNCHANGED << bcryptOnly, x8Only, calls, threads >>

\* create_round_keys: the key is copied into the first round keys.
CrkCopy ==
    /\ pc = "copy_key"
    /\ round_keys' = CopyKey(round_keys, key, 0)
    /\ i' = KeyParams(Len(key))[1]
    /\ flow' = Append(flow, << "copy", Len(key) \div 4 >>)
    /\ pc' = "expand"
    /\ UNCHANGED << key, rounds, mode, enc_sk, dec_sk, input, output, plain,
                    tmp, rnd, ops >>
    /\ UNCHANGED << bcryptOnly, x8Only, calls, threads >>

\* The iteration with a branch on the word read: sub_word is looked up in a
\* table when the low byte of the word is even.
CrkExpandBranchingOnWord ==
    /\ pc = "expand"
    /\ i < (KeyParams(Len(key))[2] + 1) * 4
    /\ IF i \div 4 >= Len(round_keys)
         THEN Panic
         ELSE /\ round_keys' = RkSet(round_keys, i,
                                     ExpandWord(round_keys, i, KeyParams(Len(key))[1]))
              /\ i' = i + 1
              /\ flow' = Append(flow,
                     LET key_words == KeyParams(Len(key))[1]
                     IN  << "expand", i - 1, i - key_words, i,
                            IF i % key_words = 0
                              THEN << "rotate_right", 8, "sub_word", "RCON",
                                      (i \div key_words) - 1 >>
                            ELSE IF key_words = 8 /\ i % key_words = 4
                              THEN IF RkGet(round_keys, i - 1)[1] % 2 = 0
                                     THEN << "table", RkGet(round_keys, i - 1)[1] >>
                                     ELSE << "sub_word" >>
                            ELSE << >> >>)
              /\ UNCHANGED << key, rounds, mode, enc_sk, dec_sk, input, output,
                              plain, tmp, rnd, ops, pc >>
    /\ UNCHANGED << bcryptOnly, x8Only, calls, threads >>

\* create_round_keys: one iteration of for i in key_words..(rounds + 1) * 4;
\* indexing round_keys[i / 4] past the end of the array panics.
CrkExpand ==
    /\ pc = "expand"
    /\ i < (KeyParams(Len(key))[2] + 1) * 4
    /\ IF i \div 4 >= Len(round_keys)
         THEN Panic
         ELSE /\ round_keys' = RkSet(round_keys, i,
                                     ExpandWord(round_keys, i, KeyParams(Len(key))[1]))
              /\ i' = i + 1
              /\ flow' = Append(flow,
                     LET key_words == KeyParams(Len(key))[1]
                     IN  << "expand", i - 1, i - key_words, i,
                            IF i % key_words = 0
                              THEN << "rotate_right", 8, "sub_word", "RCON",
                                      (i \div key_words) - 1 >>
                            ELSE IF key_words = 8 /\ i % key_words = 4
                              THEN << "sub_word" >>
                            ELSE << >> >>)
              /\ UNCHANGED << key, rounds, mode, enc_sk, dec_sk, input, output,
                              plain, tmp, rnd, ops, pc >>
    /\ UNCHANGED << bcryptOnly, x8Only, calls, threads >>

\* The end of the loop with the decryption pass over round_keys[0..rounds].
CrkExpandEndPassFromZero ==
    /\ pc = "expand"
    /\ i >= (KeyParams(Len(key))[2] + 1) * 4
    /\ IF mode = "Decryption"
         THEN pc' = "decryption_keys" /\ i' = 0
         ELSE pc' = "slice_keys" /\ i' = i
    /\ flow' = Append(flow, << "if let KeyType::Decryption", mode = "Decryption" >>)
    /\ UNCHANGED << key, rounds, mode, round_keys, enc_sk, dec_sk, input, output,
                    plain, tmp, rnd, ops >>
    /\ UNCHANGED << bcryptOnly, x8Only, calls, threads >>

\* create_round_keys: the loop ends; if let KeyType::Decryption = key_type.
CrkExpandEnd ==
    /\ pc = "expand"
    /\ i >= (KeyParams(Len(key))[2] + 1) * 4
    /\ IF mode = "Decryption"
         THEN pc' = "decryption_keys" /\ i' = 1
         ELSE pc' = "slice_keys" /\ i' = i
    /\ flow' = Append(flow, << "if let KeyType::Decryption", mode = "Decryption" >>)
    /\ UNCHANGED << key, rounds, mode, round_keys, enc_sk, dec_sk, input, output,
                    plain, tmp, rnd, ops >>
    /\ UNCHANGED << bcryptOnly, x8Only, calls, threads >>

\* create_round_keys: one iteration of for key in &mut round_keys[1..rounds].
CrkDecryptionKey ==
    /\ pc = "decryption_keys"
    /\ i < KeyParams(Len(key))[2]
    /\ round_keys' = [round_keys EXCEPT ![i + 1] = InvMcolKey(round_keys[i + 1])]
    /\ i' = i + 1
    /\ flow' = Append(flow, << "inv_mcol", i >>)
    /\ UNCHANGED << key, rounds, mode, enc_sk, dec_sk, input, output, plain,
                    tmp, rnd, ops, pc >>
    /\ UNCHANGED << bcryptOnly, x8Only, calls, threads >>

CrkDecryptionEnd ==
    /\ pc = "decryption_keys"
    /\ i >= KeyParams(Len(key))[2]
    /\ pc' = "slice_keys"
    /\ UNCHANGED << key, rounds, mode, round_keys, i, enc_sk, dec_sk, input,
                    output, plain, tmp, rnd, ops >>
    /\ UNCHANGED << bcryptOnly, x8Only, calls, threads, flow >>

\* The sk that new builds from tmp.
SliceKeys(rk) ==
    [r \in 1..Len(rk) |->
        bit_slice_4x4_with_u16(rk[r][1], rk[r][2], rk[r][3], rk[r][4])]

\* new: every round key is bit sliced into a.sk and a is returned; the
\* decryptor is built after the encryptor, from the same key.
NewReturn ==
    /\ pc = "slice_keys"
    /\ IF mode = "Encryption"
         THEN /\ enc_sk' = SliceKeys(round_keys)
              /\ dec_sk' = dec_sk
              /\ mode' = "Decryption"
              /\ pc' = "new"
         ELSE /\ dec_sk' = SliceKeys(round_keys)
              /\ enc_sk' = enc_sk
              /\ mode' = mode
              /\ pc' = "ready"
    /\ round_keys' = <<>>
    /\ UNCHANGED << key, rounds, i, input, output, plain, tmp, rnd, ops >>
    /\ UNCHANGED << bcryptOnly, x8Only, calls, threads, flow >>

-----------------------------------------------------------------------------
(* encrypt_block and encrypt_core *)

\* The subkey loop of the cores runs over sk[1..last]: at index r it enters
\* its body while r is in 1..last-1.
\* Variants of the subkey loop: one over sk[1..=last], one over sk[0..last].
InLoopThroughLast(sk, r) == r >= 1 /\ r < Len(sk)

InLoopFromZero(sk, r) == r >= 0 /\ r < Len(sk) - 1

InLoop(sk, r) == r >= 1 /\ r < Len(sk) - 1

\* encrypt_block: the input is bit sliced and encrypt_core is entered.
EncryptBlock ==
    /\ pc = "ready"
    /\ \E seed \in 0..MaxBlockSeed : input' = Block(seed)
    /\ tmp' = bit_slice_1x16_with_u16(input')
    /\ ops' = <<>>
    /\ pc' = "enc_round0"
    /\ UNCHANGED << key, rounds, mode, round_keys, i, enc_sk, dec_sk, output,
                    plain, rnd >>
    /\ UNCHANGED << bcryptOnly, x8Only, calls, threads, flow >>

\* Round 0 with the state kept in the instance: sk[0] is overwritten.
EncRound0WritingSchedule ==
    /\ pc = "enc_round0"
    /\ tmp' = add_round_key(tmp, enc_sk[0 + 1])
    /\ enc_sk' = [enc_sk EXCEPT ![0 + 1] = tmp']
    /\ ops' = Append(ops, << "AddRoundKey", 0 >>)
    /\ rnd' = 1
    /\ pc' = IF InLoop(enc_sk, 1) THEN "enc_sub_bytes" ELSE "enc_last_sub_bytes"
    /\ UNCHANGED << key, rounds, mode, round_keys, i, dec_sk, input,
                    output, plain >>
    /\ UNCHANGED << bcryptOnly, x8Only, calls, threads, flow >>

\* Round 0 - add round key.
EncRound0 ==
    /\ pc = "enc_round0"
    /\ tmp' = add_round_key(tmp, enc_sk[0 + 1])
    /\ ops' = Append(ops, << "AddRoundKey", 0 >>)
    /\ rnd' = 1
    /\ pc' = IF InLoop(enc_sk, 1) THEN "enc_sub_bytes" ELSE "enc_last_sub_bytes"
    /\ UNCHANGED << key, rounds, mode, round_keys, i, enc_sk, dec_sk, input,
                    output, plain >>
    /\ UNCHANGED << bcryptOnly, x8Only, calls, threads, flow >>

EncSubBytes ==
    /\ pc = "enc_sub_bytes"
    /\ tmp' = sub_bytes(tmp)
    /\ ops' = Append(ops, << "SubBytes" >>)
    /\ pc' = "enc_shift_rows"
    /\ UNCHANGED << key, rounds, mode, round_keys, i, enc_sk, dec_sk, input,
                    output, plain, rnd >>
    /\ UNCHANGED << bcryptOnly, x8Only, calls, threads, flow >>

EncShiftRows ==
    /\ pc = "enc_shift_rows"
    /\ tmp' = shift_rows(tmp)
    /\ ops' = Append(ops, << "ShiftRows" >>)
    /\ pc' = "enc_mix_columns"
    /\ UNCHANGED << key, rounds, mode, round_keys, i, enc_sk, dec_sk, input,
                    output, plain, rnd >>
    /\ UNCHANGED << bcryptOnly, x8Only, calls, threads, flow >>

EncMixColumns ==
    /\ pc = "enc_mix_columns"
    /\ tmp' = mix_columns(tmp)
    /\ ops' = Append(ops, << "MixColumns" >>)
    /\ pc' = "enc_add_round_key"
    /\ UNCHANGED << key, rounds, mode, round_keys, i, enc_sk, dec_sk, input,
                    output, plain, rnd >>
    /\ UNCHANGED << bcryptOnly, x8Only, calls, threads, flow >>

EncAddRoundKey ==
    /\ pc = "enc_add_round_key"
    /\ tmp' = add_round_key(tmp, enc_sk[rnd + 1])
    /\ ops' = Append(ops, << "AddRoundKey", rnd >>)
    /\ rnd' = rnd + 1
    /\ pc' = IF InLoop(enc_sk, rnd + 1) THEN "enc_sub_bytes" ELSE "enc_last_sub_bytes"
    /\ UNCHANGED << key, rounds, mode, round_keys, i, enc_sk, dec_sk, input,
                    output, plain >>
    /\ UNCHANGED << bcryptOnly, x8Only, calls, threads, flow >>

\* Last round.
EncLastSubBytes ==
    /\ pc = "enc_last_sub_bytes"
    /\ tmp' = sub_bytes(tmp)
    /\ ops' = Append(ops, << "SubBytes" >>)
    /\ pc' = "enc_last_shift_rows"
    /\ UNCHANGED << key, rounds, mode, round_keys, i, enc_sk, dec_sk, input,
                    output, plain, rnd >>
    /\ UNCHANGED << bcryptOnly, x8Only, calls, threads, flow >>

EncLastShiftRows ==
    /\ pc = "enc_last_shift_rows"
    /\ tmp' = shift_rows(tmp)
    /\ ops' = Append(ops, << "ShiftRows" >>)
    /\ pc' = "enc_last_add_round_key"
    /\ UNCHANGED << key, rounds, mode, round_keys, i, enc_sk, dec_sk, input,
                    output, plain, rnd >>
    /\ UNCHANGED << bcryptOnly, x8Only, calls, threads, flow >>

EncLastAddRoundKey ==
    /\ pc = "enc_last_add_round_key"
    /\ tmp' = add_round_key(tmp, enc_sk[(Len(enc_sk) - 1) + 1])
    /\ ops' = Append(ops, << "AddRoundKey", Len(enc_sk) - 1 >>)
    /\ pc' = "enc_un_bit_slice"
    /\ UNCHANGED << key, rounds, mode, round_keys, i, enc_sk, dec_sk, input,
                    output, plain, rnd >>
    /\ UNCHANGED << bcryptOnly, x8Only, calls, threads, flow >>

\* encrypt_block: the result of encrypt_core is written to output.
EncUnBitSlice ==
    /\ pc = "enc_un_bit_slice"
    /\ output' = un_bit_slice_1x16_with_u16(tmp)
    /\ calls' = Append(calls, << "encrypt_block", input, output' >>)
    /\ pc' = "encrypted"
    /\ UNCHANGED << key, rounds, mode, round_keys, i, enc_sk, dec_sk, input,
                    plain, tmp, rnd, ops >>
    /\ UNCHANGED << bcryptOnly, x8Only, threads, flow >>

-----------------------------------------------------------------------------
(* decrypt_block and decrypt_core *)

\* decrypt_block on the output of encrypt_block.
DecryptBlock ==
    /\ pc = "encrypted"
    /\ tmp' = bit_slice_1x16_with_u16(output)
    /\ ops' = <<>>
    /\ pc' = "dec_round0"
    /\ UNCHANGED << key, rounds, mode, round_keys, i, enc_sk, dec_sk, input,
                    output, plain, rnd >>
    /\ UNCHANGED << bcryptOnly, x8Only, calls, threads, flow >>

\* Round 0 - add round key.
DecRound0 ==
    /\ pc = "dec_round0"
    /\ tmp' = add_round_key(tmp, dec_sk[(Len(dec_sk) - 1) + 1])
    /\ ops' = Append(ops, << "AddRoundKey", Len(dec_sk) - 1 >>)
    /\ rnd' = Len(dec_sk) - 2
    /\ pc' = IF InLoop(dec_sk, Len(dec_sk) - 2)
               THEN "dec_inv_sub_bytes" ELSE "dec_last_inv_sub_bytes"
    /\ UNCHANGED << key, rounds, mode, round_keys, i, enc_sk, dec_sk, input,
                    output, plain >>
    /\ UNCHANGED << bcryptOnly, x8Only, calls, threads, flow >>

DecInvSubBytes ==
    /\ pc = "dec_inv_sub_bytes"
    /\ tmp' = inv_sub_bytes(tmp)
    /\ ops' = Append(ops, << "InvSubBytes" >>)
    /\ pc' = "dec_inv_shift_rows"
    /\ UNCHANGED << key, rounds, mode, round_keys, i, enc_sk, dec_sk, input,
                    output, plain, rnd >>
    /\ UNCHANGED << bcryptOnly, x8Only, calls, threads, flow >>

DecInvShiftRows ==
    /\ pc = "dec_inv_shift_rows"
    /\ tmp' = inv_shift_rows(tmp)
    /\ ops' = Append(ops, << "InvShiftRows" >>)
    /\ pc' = "dec_inv_mix_columns"
    /\ UNCHANGED << key, rounds, mode, round_keys, i, enc_sk, dec_sk, input,
                    output, plain, rnd >>
    /\ UNCHANGED << bcryptOnly, x8Only, calls, threads, flow >>

DecInvMixColumns ==
    /\ pc = "dec_inv_mix_columns"
    /\ tmp' = inv_mix_columns(tmp)
    /\ ops' = Append(ops, << "InvMixColumns" >>)
    /\ pc' = "dec_add_round_key"
    /\ UNCHANGED << key, rounds, mode, round_keys, i, enc_sk, dec_sk, input,
                    output, plain, rnd >>
    /\ UNCHANGED << bcryptOnly, x8Only, calls, threads, flow >>

DecAddRoundKey ==
    /\ pc = "dec_add_round_key"
    /\ tmp' = add_round_key(tmp, dec_sk[rnd + 1])
    /\ ops' = Append(ops, << "AddRoundKey", rnd >>)
    /\ rnd' = rnd - 1
    /\ pc' = IF InLoop(dec_sk, rnd - 1)
               THEN "dec_inv_sub_bytes" ELSE "dec_last_inv_sub_bytes"
    /\ UNCHANGED << key, rounds, mode, round_keys, i, enc_sk, dec_sk, input,
                    output, plain >>
    /\ UNCHANGED << bcryptOnly, x8Only, calls, threads, flow >>

\* Last round.
DecLastInvSubBytes ==
    /\ pc = "dec_last_inv_sub_bytes"
    /\ tmp' = inv_sub_bytes(tmp)
    /\ ops' = Append(ops, << "InvSubBytes" >>)
    /\ pc' = "dec_last_inv_shift_rows"
    /\ UNCHANGED << key, rounds, mode, round_keys, i, enc_sk, dec_sk, input,
                    output, plain, rnd >>
    /\ UNCHANGED << bcryptOnly, x8Only, calls, threads, flow >>

DecLastInvShiftRows ==
    /\ pc = "dec_last_inv_shift_rows"
    /\ tmp' = inv_shift_rows(tmp)
    /\ ops' = Append(ops, << "InvShiftRows" >>)
    /\ pc' = "dec_last_add_round_key"
    /\ UNCHANGED << key, rounds, mode, round_keys, i, enc_sk, dec_sk, input,
                    output, plain, rnd >>
    /\ UNCHANGED << bcryptOnly, x8Only, calls, threads, flow >>

DecLastAddRoundKey ==
    /\ pc = "dec_last_add_round_key"
    /\ tmp' = add_round_key(tmp, dec_sk[0 + 1])
    /\ ops' = Append(ops, << "AddRoundKey", 0 >>)
    /\ pc' = "dec_un_bit_slice"
    /\ UNCHANGED << key, rounds, mode, round_keys, i, enc_sk, dec_sk, input,
                    output, plain, rnd >>
    /\ UNCHANGED << bcryptOnly, x8Only, calls, threads, flow >>

\* decrypt_block: the result of decrypt_core is written to its output.
DecUnBitSlice ==
    /\ pc = "dec_un_bit_slice"
    /\ plain' = un_bit_slice_1x16_with_u16(tmp)
    /\ calls' = Append(calls, << "decrypt_block", output, plain' >>)
    /\ pc' = "done"
    /\ UNCHANGED << key, rounds, mode, round_keys, i, enc_sk, dec_sk, input,
                    output, tmp, rnd, ops >>
    /\ UNCHANGED << bcryptOnly, x8Only, threads, flow >>

NextAes ==
    \/ New \/ CrkMatch \/ CrkCopy \/ CrkExpand \/ CrkExpandEnd
    \/ CrkDecryptionKey \/ CrkDecryptionEnd \/ NewReturn
    \/ EncryptBlock \/ EncRound0 \/ EncSubBytes \/ EncShiftRows \/ EncMixColumns
    \/ EncAddRoundKey \/ EncLastSubBytes \/ EncLastShiftRows \/ EncLastAddRoundKey
    \/ EncUnBitSlice
    \/ DecryptBlock \/ DecRound0 \/ DecInvSubBytes \/ DecInvShiftRows
    \/ DecInvMixColumns \/ DecAddRoundKey \/ DecLastInvSubBytes
    \/ DecLastInvShiftRows \/ DecLastAddRoundKey \/ DecUnBitSlice

SpecAes == InitAes /\ [][NextAes]_vars

-----------------------------------------------------------------------------
(* The Blowfish collaborator (crypto::block::blowfish).  Of the P-array and  *)
(* the S-boxes the model keeps a digest below BlowfishModulus; every         *)
(* operation is a function of its arguments that is sensitive to their       *)
(* order, and encrypt_round is a permutation of the pairs of words.          *)

BlowfishModulus == 65521

\* What a key schedule absorbs of a byte string: each byte with its position.
RECURSIVE KeyDigest(_, _, _)
KeyDigest(bytes, lo, hi) ==
    IF lo > hi THEN 0
    ELSE IF lo = hi THEN (bytes[lo] + 1) * lo
    ELSE LET mid == (lo + hi) \div 2
         IN  KeyDigest(bytes, lo, mid) + KeyDigest(bytes, mid + 1, hi)

\* Blowfish::init(): the state of the fixed constants.
init == 9279

\* st.salted_expand_key(slt, k)
salted_expand_key(st, slt, k) ==
    (st * 31 + 7 * KeyDigest(slt, 1, Len(slt)) + KeyDigest(k, 1, Len(k)) + 1)
        % BlowfishModulus

\* st.expand_key(k)
expand_key(st, k) == (st * 33 + KeyDigest(k, 1, Len(k)) + 1) % BlowfishModulus

\* st.encrypt_round((l, r))
encrypt_round(st, l, r) ==
    LET l2 == BitXor32(RotL32(r, 5), U32(st))
        r2 == BitXor32(l, WrappingMul32(l2, << \hb1, \h79, \h37, \h9e >>))
    IN  << l2, r2 >>

-----------------------------------------------------------------------------
(* bcrypt: inputs *)

MaxCost == 2
MaxSeed == 1

\* The costs explored: the small ones and the largest of the range [0, 31].
Costs == (0..MaxCost) \cup {31}

SaltLens == {15, 16, 17}
InputLens == {0, 1, 72, 73}
OutputLens == {23, 24, 25}
OutputFills == {0, 255}

Salt(len, seed) == [n \in 1..len |-> (n * 7 + seed * 53) % 256]
Password(len, seed) == [n \in 1..len |-> (n * 11 + seed * 29 + 65) % 256]

\* The value of an i32 with the bits of the u32 x.
I32(x) ==
    LET low == x[1] + 256 * x[2] + 65536 * x[3] + 16777216 * (x[4] % 128)
    IN  IF x[4] >= 128 THEN (low - 1073741824) - 1073741824 ELSE low

\* 1 << cost: the literal 1 is an i32, the type integer literals fall back to.
ShlOne(c) == I32(Shl32(U32(1), c))

\* The constant ctext starts as.
Ctext ==
    << U32(\h4f727068), U32(\h65616e42), U32(\h65686f6c),
       U32(\h64657253), U32(\h63727944), U32(\h6f756274) >>

\* The iterations of the inner loop, for _ in 0..64 (and one fewer).
ChunkIterationsOneShort == 64 - 1

ChunkIterations == 64

\* The asserts on the lengths of salt, input and output (InputOkBelow72 is
\* the assert on input with < for <=).
SaltOk(len) == len = 16

InputOkBelow72(len) == 0 < len /\ len < 72

InputOk(len) == 0 < len /\ len <= 72

OutputOk(len) == len = 24

\* out with the eight bytes of chunk j (0, 1, 2) replaced by the big-endian
\* bytes of l and r (the variant leaves byte 24, which no comparison of a
\* hash reads, as it was).
WriteChunkBytesButLast(out, j, l, r) ==
    LET bytes == WriteU32BE(l) \o WriteU32BE(r)
    IN  [n \in 1..Len(out) |->
            IF n > 8 * j /\ n <= 8 * j + 8 /\ n # 24 THEN bytes[n - 8 * j] ELSE out[n]]

WriteChunkBytes(out, j, l, r) ==
    LET bytes == WriteU32BE(l) \o WriteU32BE(r)
    IN  [n \in 1..Len(out) |->
            IF n > 8 * j /\ n <= 8 * j + 8 THEN bytes[n - 8 * j] ELSE out[n]]

-----------------------------------------------------------------------------
(* bcrypt: state machine *)

InitBcrypt ==
    /\ cost \in Costs
    /\ \E seed \in 0..MaxSeed :
          /\ salt \in {Salt(len, seed) : len \in SaltLens}
          /\ input \in {Password(len, seed) : len \in InputLens}
    /\ output \in {Repeat(fill, len) : fill \in OutputFills, len \in OutputLens}
    /\ prior = output
    /\ first = <<>>
    /\ state = 0 /\ setup_n = 0 /\ setup_i = 0
    /\ ctext = <<>> /\ chunk = 0 /\ enc_i = 0
    /\ bf_ops = <<>> /\ written = {}
    /\ pc = "bcrypt"
    /\ AesIdle /\ X8Idle

\* bcrypt: the three asserts at entry.
Bcrypt ==
    /\ pc = "bcrypt"
    /\ pc' = IF SaltOk(Len(salt)) /\ InputOk(Len(input)) /\ OutputOk(Len(output))
               THEN "bcrypt_setup" ELSE "panicked"
    /\ UNCHANGED << cost, salt, input, output, state, setup_n, setup_i, ctext,
                    chunk, enc_i, bf_ops, written, prior, first >>
    /\ UNCHANGED << aesOnly, x8Only, calls, threads, flow >>

\* bcrypt_setup: Blowfish::init().salted_expand_key(salt, key), and the range
\* 0..(1 << cost) is built.
BcryptSetup ==
    /\ pc = "bcrypt_setup"
    /\ state' = salted_expand_key(init, salt, input)
    /\ bf_ops' = << << "init" >>, << "salted_expand_key", "salt", "password" >> >>
    /\ setup_n' = ShlOne(cost)
    /\ setup_i' = 0
    /\ pc' = "setup_loop"
    /\ UNCHANGED << cost, salt, input, output, ctext, chunk, enc_i, written,
                    prior, first >>
    /\ UNCHANGED << aesOnly, x8Only, calls, threads, flow >>

\* The iteration with the two expansions in the other order,
\* state = state.expand_key(salt).expand_key(key).
SetupRoundSaltFirst ==
    /\ pc = "setup_loop"
    /\ setup_i < setup_n
    /\ state' = expand_key(expand_key(state, salt), input)
    /\ bf_ops' = bf_ops \o << << "expand_key", "salt" >>, << "expand_key", "password" >> >>
    /\ setup_i' = setup_i + 1
    /\ UNCHANGED << cost, salt, input, output, setup_n, ctext, chunk, enc_i,
                    written, prior, first, pc >>
    /\ UNCHANGED << aesOnly, x8Only, calls, threads, flow >>

\* bcrypt_setup: one iteration of the loop,
\* state = state.expand_key(key).expand_key(salt).
SetupRound ==
    /\ pc = "setup_loop"
    /\ setup_i < setup_n
    /\ state' = expand_key(expand_key(state, input), salt)
    /\ bf_ops' = bf_ops \o << << "expand_key", "password" >>, << "expand_key", "salt" >> >>
    /\ setup_i' = setup_i + 1
    /\ UNCHANGED << cost, salt, input, output, setup_n, ctext, chunk, enc_i,
                    written, prior, first, pc >>
    /\ UNCHANGED << aesOnly, x8Only, calls, threads, flow >>

\* bcrypt_setup returns state; bcrypt sets ctext and enters the loop over the
\* chunks.
SetupReturn ==
    /\ pc = "setup_loop"
    /\ ~(setup_i < setup_n)
    /\ ctext' = Ctext
    /\ chunk' = 0
    /\ enc_i' = 0
    /\ pc' = "encrypt"
    /\ UNCHANGED << cost, salt, input, output, state, setup_n, setup_i, bf_ops,
                    written, prior, first >>
    /\ UNCHANGED << aesOnly, x8Only, calls, threads, flow >>

\* bcrypt: one iteration of the inner loop on the current chunk.
EncryptRound ==
    /\ pc = "encrypt"
    /\ enc_i < ChunkIterations
    /\ LET lr == encrypt_round(state, ctext[2 * chunk + 1], ctext[2 * chunk + 2])
       IN  ctext' = [ctext EXCEPT ![2 * chunk + 1] = lr[1], ![2 * chunk + 2] = lr[2]]
    /\ bf_ops' = Append(bf_ops, << "encrypt_round", chunk >>)
    /\ enc_i' = enc_i + 1
    /\ UNCHANGED << cost, salt, input, output, state, setup_n, setup_i, chunk,
                    written, prior, first, pc >>
    /\ UNCHANGED << aesOnly, x8Only, calls, threads, flow >>

\* bcrypt: the two BigEndian::write_u32 of the current chunk, and the next
\* chunk; after the third the function returns.
WriteChunk ==
    /\ pc = "encrypt"
    /\ ~(enc_i < ChunkIterations)
    /\ output' = WriteChunkBytes(output, chunk, ctext[2 * chunk + 1], ctext[2 * chunk + 2])
    /\ written' = written \cup
                     {n \in 1..Len(output) :
                         WriteChunkBytes([m \in 1..Len(output) |-> 256], chunk,
                                         ctext[2 * chunk + 1], ctext[2 * chunk + 2])[n]
                             # 256}
    /\ chunk' = chunk + 1
    /\ enc_i' = 0
    /\ pc' = IF chunk + 1 < 3 THEN "encrypt" ELSE "done"
    /\ UNCHANGED << cost, salt, input, state, setup_n, setup_i, ctext, bf_ops,
                    prior, first >>
    /\ UNCHANGED << aesOnly, x8Only, calls, threads, flow >>

\* The caller keeps what the first call left and calls bcrypt again with the
\* same cost, salt and password, on the same buffer as it is or refilled.
CallAgain ==
    /\ pc = "done"
    /\ first = <<>>
    /\ first' = << prior, output >>
    /\ output' \in {output} \cup {Repeat(fill, 24) : fill \in OutputFills}
    /\ prior' = output'
    /\ state' = 0 /\ setup_n' = 0 /\ setup_i' = 0
    /\ ctext' = <<>> /\ chunk' = 0 /\ enc_i' = 0
    /\ bf_ops' = <<>> /\ written' = {}
    /\ pc' = "bcrypt"
    /\ UNCHANGED << cost, salt, input >>
    /\ UNCHANGED << aesOnly, x8Only, calls, threads, flow >>

NextBcrypt ==
    \/ Bcrypt \/ BcryptSetup \/ SetupRound \/ SetupReturn
    \/ EncryptRound \/ WriteChunk \/ CallAgain

SpecBcrypt == InitBcrypt /\ [][NextBcrypt]_vars

-----------------------------------------------------------------------------
(* The wide backend. A u32x4 (simd.rs) is four rows of u32; a Gf8<u32x4> is  *)
(* eight of them, one per bit plane.                                         *)

\* u32x4::filled.
filled(w) == << w, w, w, w >>

\* The sixteen bytes from data[at] taken one column after the other.
read_column_major(data, at) ==
    << ReadU32LE(data, at), ReadU32LE(data, at + 4),
       ReadU32LE(data, at + 8), ReadU32LE(data, at + 12) >>

\* u32x4::read_row_major of data[at..at + 16]: row r holds the bytes r, 4 + r,
\* 8 + r, 12 + r, the byte of column c in its byte c.
read_row_major(data, at) ==
    << << data[at + 1], data[at + 5], data[at + 9], data[at + 13] >>,
       << data[at + 2], data[at + 6], data[at + 10], data[at + 14] >>,
       << data[at + 3], data[at + 7], data[at + 11], data[at + 15] >>,
       << data[at + 4], data[at + 8], data[at + 12], data[at + 16] >> >>

\* u32x4::write_row_major: the sixteen bytes written for x, in buffer order.
write_row_major(x) ==
    << x[1][1], x[2][1], x[3][1], x[4][1], x[1][2], x[2][2], x[3][2], x[4][2],
       x[1][3], x[2][3], x[3][3], x[4][3], x[1][4], x[2][4], x[3][4], x[4][4] >>

\* u32x4::rotate_left and rotate_right, row by row, and & and | on u32x4.
rotate_left(x, n) ==
    << RotL32(x[1], n), RotL32(x[2], n), RotL32(x[3], n), RotL32(x[4], n) >>
rotate_right(x, n) ==
    << RotR32(x[1], n), RotR32(x[2], n), RotR32(x[3], n), RotR32(x[4], n) >>
BitAnd128(a, b) ==
    << BitAnd32(a[1], b[1]), BitAnd32(a[2], b[2]), BitAnd32(a[3], b[3]),
       BitAnd32(a[4], b[4]) >>
BitOr128(a, b) ==
    << BitOr32(a[1], b[1]), BitOr32(a[2], b[2]), BitOr32(a[3], b[3]),
       BitOr32(a[4], b[4]) >>

\* The kernel with every term of x_n masked with bit_n, the mask of the plane.
ButterflyMaskedByPlane(t) ==
    LET bit(k) == filled(<< 2^k, 2^k, 2^k, 2^k >>)
        term(n, k) ==
            BitAnd128(IF k > n THEN rotate_left(t[k + 1], k - n)
                      ELSE IF k < n THEN rotate_right(t[k + 1], n - k)
                      ELSE t[k + 1],
                      bit(n))
        x(n) ==
            BitOr128(
                BitOr128(BitOr128(term(n, 0), term(n, 1)),
                         BitOr128(term(n, 2), term(n, 3))),
                BitOr128(BitOr128(term(n, 4), term(n, 5)),
                         BitOr128(term(n, 6), term(n, 7))))
    IN  << x(0), x(1), x(2), x(3), x(4), x(5), x(6), x(7) >>

\* The rotations and masks of bit_slice_1x128_with_u32x4, the same in
\* un_bit_slice_1x128_with_u32x4: x_i is the or over k of t_k, rotated left by
\* k - i (right by i - k when k < i), and bit_k = filled(0x01010101 << k).
Butterfly(t) ==
    LET bit(k) == filled(<< 2^k, 2^k, 2^k, 2^k >>)
        term(n, k) ==
            BitAnd128(IF k > n THEN rotate_left(t[k + 1], k - n)
                      ELSE IF k < n THEN rotate_right(t[k + 1], n - k)
                      ELSE t[k + 1],
                      bit(k))
        x(n) ==
            BitOr128(
                BitOr128(BitOr128(term(n, 0), term(n, 1)),
                         BitOr128(term(n, 2), term(n, 3))),
                BitOr128(BitOr128(term(n, 4), term(n, 5)),
                         BitOr128(term(n, 6), term(n, 7))))
    IN  << x(0), x(1), x(2), x(3), x(4), x(5), x(6), x(7) >>

bit_slice_1x128_with_u32x4(data) ==
    Butterfly(<< read_row_major(data, 0), read_row_major(data, 16),
                 read_row_major(data, 32), read_row_major(data, 48),
                 read_row_major(data, 64), read_row_major(data, 80),
                 read_row_major(data, 96), read_row_major(data, 112) >>)

\* The 128 bytes written to output.
un_bit_slice_1x128_with_u32x4(bs) ==
    LET write(x) ==
            write_row_major(x[1]) \o write_row_major(x[2]) \o write_row_major(x[3])
                \o write_row_major(x[4]) \o write_row_major(x[5])
                \o write_row_major(x[6]) \o write_row_major(x[7])
                \o write_row_major(x[8])
    IN  write(Butterfly(bs))

\* The big-endian variant of bit_slice_fill_4x4_with_u32x4.
bit_slice_fill_big_endian(a, b, c, d) ==
    LET one == WriteU32BE(a) \o WriteU32BE(b) \o WriteU32BE(c) \o WriteU32BE(d)
    IN  bit_slice_1x128_with_u32x4(
            one \o one \o one \o one \o one \o one \o one \o one)

\* tmp is filled with eight copies of a, b, c, d and sliced.
bit_slice_fill_4x4_with_u32x4(a, b, c, d) ==
    LET one == WriteU32LE(a) \o WriteU32LE(b) \o WriteU32LE(c) \o WriteU32LE(d)
    IN  bit_slice_1x128_with_u32x4(
            one \o one \o one \o one \o one \o one \o one \o one)

-----------------------------------------------------------------------------
(* The X8 encryptor: new, encrypt_block_x8 and encrypt_core over Gf8<u32x4>  *)

\* ^ on u32x4.
BitXor128(a, b) ==
    << BitXor32(a[1], b[1]), BitXor32(a[2], b[2]), BitXor32(a[3], b[3]),
       BitXor32(a[4], b[4]) >>

\* shift_row with the rows rotated left.
shift_row_u32x4_left(x) ==
    << x[1], RotL32(x[2], 8), RotL32(x[3], 16), RotL32(x[4], 24) >>

\* impl AesBitValueOps for u32x4.
shift_row_u32x4(x) ==
    << x[1], RotR32(x[2], 8), RotR32(x[3], 16), RotR32(x[4], 24) >>
inv_shift_row_u32x4(x) ==
    << x[1], RotL32(x[2], 8), RotL32(x[3], 16), RotL32(x[4], 24) >>
ror1_u32x4(x) == << x[2], x[3], x[4], x[1] >>
ror2_u32x4(x) == << x[3], x[4], x[1], x[2] >>
ror3_u32x4(x) == << x[4], x[1], x[2], x[3] >>

\* AesOps for Gf8<u32x4>. sub_bytes is the S-box on every byte of the eight
\* blocks: bit k of byte c of row r of plane n is bit n of the byte at row r
\* and column c of block k.
sub_bytes_x8(s) ==
    LET cells ==
            [r \in 1..4 |-> [c \in 1..4 |->
                LET planes == [n \in 1..8 |-> s[n][r][c]]
                    subbed == [k \in 1..8 |-> SBox[GfByteAt(planes, k - 1)]]
                IN  [n \in 1..8 |->
                        GfLane4(subbed, n - 1, 0) + 16 * GfLane4(subbed, n - 1, 4)]]]
    IN  [n \in 1..8 |-> [r \in 1..4 |-> [c \in 1..4 |-> cells[r][c][n]]]]

shift_rows_x8(s) ==
    << shift_row_u32x4(s[1]), shift_row_u32x4(s[2]), shift_row_u32x4(s[3]),
       shift_row_u32x4(s[4]), shift_row_u32x4(s[5]), shift_row_u32x4(s[6]),
       shift_row_u32x4(s[7]), shift_row_u32x4(s[8]) >>

mix_columns_x8(s) ==
    LET x0 == s[1]  x1 == s[2]  x2 == s[3]  x3 == s[4]
        x4 == s[5]  x5 == s[6]  x6 == s[7]  x7 == s[8]
        R1(x) == ror1_u32x4(x)
        R2(x) == ror2_u32x4(x)
        X(a, b) == BitXor128(a, b)
        X4(a, b, c, d) == X(X(X(a, b), c), d)
        X6(a, b, c, d, e, f) == X(X(X4(a, b, c, d), e), f)
    IN  << X4(x7, R1(x7), R1(x0), R2(X(x0, R1(x0)))),
           X6(x0, R1(x0), x7, R1(x7), R1(x1), R2(X(x1, R1(x1)))),
           X4(x1, R1(x1), R1(x2), R2(X(x2, R1(x2)))),
           X6(x2, R1(x2), x7, R1(x7), R1(x3), R2(X(x3, R1(x3)))),
           X6(x3, R1(x3), x7, R1(x7), R1(x4), R2(X(x4, R1(x4)))),
           X4(x4, R1(x4), R1(x5), R2(X(x5, R1(x5)))),
           X4(x5, R1(x5), R1(x6), R2(X(x6, R1(x6)))),
           X4(x6, R1(x6), R1(x7), R2(X(x7, R1(x7)))) >>

add_round_key_x8(s, rk) ==
    << BitXor128(s[1], rk[1]), BitXor128(s[2], rk[2]), BitXor128(s[3], rk[3]),
       BitXor128(s[4], rk[4]), BitXor128(s[5], rk[5]), BitXor128(s[6], rk[6]),
       BitXor128(s[7], rk[7]), BitXor128(s[8], rk[8]) >>

\* The instances are built from keys of the three sizes, each by the types of
\* its size: AesSafe128*, AesSafe192* or AesSafe256*.
InitOwnSize ==
    /\ \E len \in {16, 24, 32} : \E seed \in 0..MaxKeySeed :
          /\ key = Key(len, seed)
          /\ rounds = KeyParams(len)[2]
    /\ mode = "Encryption"
    /\ round_keys = <<>> /\ i = 0 /\ enc_sk = <<>> /\ dec_sk = <<>>
    /\ input = ZeroBlock /\ output = ZeroBlock /\ plain = ZeroBlock
    /\ tmp = <<>> /\ rnd = 0 /\ ops = <<>>
    /\ pc = "new"
    /\ BcryptIdle /\ X8Idle

\* $name::new of the X8 type: every round key fills a 128-byte block and is
\* sliced into a.sk. The narrow instances are built next, from the same key.
NewReturnX8 ==
    /\ pc = "slice_keys"
    /\ mode = "Encryption"
    /\ sk_x8 = <<>>
    /\ sk_x8' = [r \in 1..Len(round_keys) |->
                    bit_slice_fill_4x4_with_u32x4(round_keys[r][1], round_keys[r][2],
                                                  round_keys[r][3], round_keys[r][4])]
    /\ round_keys' = <<>>
    /\ pc' = "new"
    /\ UNCHANGED << key, rounds, mode, i, enc_sk, dec_sk, input, output, plain,
                    tmp, rnd, ops, input_x8, tmp_x8, output_x8 >>
    /\ UNCHANGED << bcryptOnly, calls, threads, flow >>

\* The eight blocks handed to encrypt_block_x8: block at (from 0) is b, the
\* others are b itself or differ from b and from one another.
EightBlocks(b, at, copies) ==
    [n \in 1..128 |->
        LET k == (n - 1) \div 16
        IN  IF k = at \/ copies THEN b[((n - 1) % 16) + 1]
            ELSE (b[((n - 1) % 16) + 1] + 17 * (k + 1)) % 256]

\* encrypt_block_x8: the input is bit sliced; encrypt_core, round 0.
EncryptBlockX8 ==
    /\ pc = "encrypted"
    /\ \E at \in 0..7 : \E copies \in BOOLEAN :
          input_x8' = EightBlocks(input, at, copies)
    /\ tmp_x8' = add_round_key_x8(bit_slice_1x128_with_u32x4(input_x8'), sk_x8[0 + 1])
    /\ rnd' = 1
    /\ pc' = "x8_round"
    /\ UNCHANGED << key, rounds, mode, round_keys, i, enc_sk, dec_sk, input,
                    output, plain, tmp, ops, sk_x8, output_x8 >>
    /\ UNCHANGED << bcryptOnly, calls, threads, flow >>

\* encrypt_core: one iteration of the loop over sk[1..sk.len() - 1].
EncryptRoundX8 ==
    /\ pc = "x8_round"
    /\ InLoop(sk_x8, rnd)
    /\ tmp_x8' = add_round_key_x8(mix_columns_x8(shift_rows_x8(sub_bytes_x8(tmp_x8))),
                                  sk_x8[rnd + 1])
    /\ rnd' = rnd + 1
    /\ UNCHANGED << key, rounds, mode, round_keys, i, enc_sk, dec_sk, input,
                    output, plain, tmp, ops, pc, sk_x8, input_x8, output_x8 >>
    /\ UNCHANGED << bcryptOnly, calls, threads, flow >>

\* encrypt_core: the last round; encrypt_block_x8: the result is written.
EncryptLastX8 ==
    /\ pc = "x8_round"
    /\ ~InLoop(sk_x8, rnd)
    /\ tmp_x8' = add_round_key_x8(shift_rows_x8(sub_bytes_x8(tmp_x8)),
                                  sk_x8[(Len(sk_x8) - 1) + 1])
    /\ output_x8' = un_bit_slice_1x128_with_u32x4(tmp_x8')
    /\ pc' = "x8_encrypted"
    /\ UNCHANGED << key, rounds, mode, round_keys, i, enc_sk, dec_sk, input,
                    output, plain, tmp, rnd, ops, sk_x8, input_x8 >>
    /\ UNCHANGED << bcryptOnly, calls, threads, flow >>

NextX8 ==
    \/ New \/ CrkMatch \/ CrkCopy \/ CrkExpand \/ CrkExpandEnd
    \/ CrkDecryptionKey \/ CrkDecryptionEnd
    \/ NewReturnX8
    \/ (sk_x8 # <<>> /\ NewReturn)
    \/ EncryptBlock \/ EncRound0 \/ EncSubBytes \/ EncShiftRows \/ EncMixColumns
    \/ EncAddRoundKey \/ EncLastSubBytes \/ EncLastShiftRows \/ EncLastAddRoundKey
    \/ EncUnBitSlice
    \/ EncryptBlockX8 \/ EncryptRoundX8 \/ EncryptLastX8

SpecX8 == InitOwnSize /\ [][NextX8]_vars

-----------------------------------------------------------------------------
(* Callers: an instance is used for one call after the other.                *)

MaxCalls == 3

\* The caller goes on after a call has returned, while fewer than MaxCalls
\* calls have returned: to encrypt_block on a block of its choice, or, after
\* decrypt_block, to decrypt_block on the same buffer once more (after
\* encrypt_block, decrypt_block can be called as it is).
NextCall ==
    /\ pc \in {"encrypted", "done"}
    /\ Len(calls) < MaxCalls
    /\ \/ pc' = "ready"
       \/ pc = "done" /\ pc' = "encrypted"
    /\ UNCHANGED << key, rounds, mode, round_keys, i, enc_sk, dec_sk, input,
                    output, plain, tmp, rnd, ops >>
    /\ UNCHANGED << bcryptOnly, x8Only, calls, threads, flow >>

\* One step of the call c of encrypt_block or decrypt_block on the instance
\* whose schedule is sk: the bit slicing, round 0, one iteration of the loop
\* of the core or its last round, the unslicing. bs and tmp are locals of the
\* call (c.tmp); of the instance only sk is read.
CallStep(c, sk) ==
    LET last == Len(sk) - 1
        enc == c.method = "encrypt_block"
    IN  CASE c.at = "bit_slice" ->
               [c EXCEPT !.tmp = bit_slice_1x16_with_u16(c.input), !.at = "round0"]
          [] c.at = "round0" ->
               [c EXCEPT !.tmp = add_round_key(c.tmp, sk[(IF enc THEN 0 ELSE last) + 1]),
                         !.rnd = IF enc THEN 1 ELSE last - 1,
                         !.at = "rounds"]
          [] c.at = "rounds" /\ InLoop(sk, c.rnd) ->
               [c EXCEPT !.tmp = IF enc
                                   THEN add_round_key(
                                            mix_columns(shift_rows(sub_bytes(c.tmp))),
                                            sk[c.rnd + 1])
                                   ELSE add_round_key(
                                            inv_mix_columns(
                                                inv_shift_rows(inv_sub_bytes(c.tmp))),
                                            sk[c.rnd + 1]),
                         !.rnd = IF enc THEN c.rnd + 1 ELSE c.rnd - 1]
          [] c.at = "rounds" /\ ~InLoop(sk, c.rnd) ->
               [c EXCEPT !.tmp = IF enc
                                   THEN add_round_key(shift_rows(sub_bytes(c.tmp)),
                                                      sk[last + 1])
                                   ELSE add_round_key(
                                            inv_shift_rows(inv_sub_bytes(c.tmp)),
                                            sk[0 + 1]),
                         !.at = "un_bit_slice"]
          [] c.at = "un_bit_slice" ->
               [c EXCEPT !.output = un_bit_slice_1x16_with_u16(c.tmp),
                         !.at = "returned"]

\* Two threads are handed references to the instances, once the first
\* encrypt_block and decrypt_block have returned; each calls encrypt_block on
\* input or decrypt_block on what encrypt_block wrote, with buffers of its own.
Spawn ==
    /\ pc = "done"
    /\ Len(calls) = 2
    /\ \E m1, m2 \in {"encrypt_block", "decrypt_block"} :
          LET call(m) == [method |-> m, at |-> "bit_slice",
                          input |-> IF m = "encrypt_block" THEN input ELSE output,
                          tmp |-> <<>>, rnd |-> 0, output |-> ZeroBlock]
          IN  threads' = << call(m1), call(m2) >>
    /\ pc' = "threads"
    /\ UNCHANGED << key, rounds, mode, round_keys, i, enc_sk, dec_sk, input,
                    output, plain, tmp, rnd, ops >>
    /\ UNCHANGED << bcryptOnly, x8Only, calls, flow >>

\* A step of thread t with the result of the core kept in one place for all
\* threads: it is unsliced from there.
ThreadStepSharedScratch(t) ==
    /\ pc = "threads"
    /\ threads[t].at # "returned"
    /\ LET own == threads[t]
           c == CallStep(IF own.at = "un_bit_slice" THEN [own EXCEPT !.tmp = tmp] ELSE own,
                         IF own.method = "encrypt_block" THEN enc_sk ELSE dec_sk)
       IN  /\ threads' = [threads EXCEPT ![t] = c]
           /\ tmp' = IF c.at = "un_bit_slice" THEN c.tmp ELSE tmp
    /\ UNCHANGED << key, rounds, mode, round_keys, i, enc_sk, dec_sk, input,
                    output, plain, rnd, ops, pc >>
    /\ UNCHANGED << bcryptOnly, x8Only, calls, flow >>

\* Thread t takes the next step of its call; the threads are scheduled in
\* any order.
ThreadStep(t) ==
    /\ pc = "threads"
    /\ threads[t].at # "returned"
    /\ threads' = [threads EXCEPT ![t] =
                      CallStep(threads[t],
                               IF threads[t].method = "encrypt_block"
                                 THEN enc_sk ELSE dec_sk)]
    /\ UNCHANGED << key, rounds, mode, round_keys, i, enc_sk, dec_sk, input,
                    output, plain, tmp, rnd, ops, pc >>
    /\ UNCHANGED << bcryptOnly, x8Only, calls, flow >>

NextCalls ==
    \/ NextAes
    \/ NextCall
    \/ Spawn
    \/ \E t \in 1..2 : ThreadStep(t)

\* The callers use one key of each size.
InitCalls == InitOwnSize /\ key = Key(Len(key), 0)

SpecCalls == InitCalls /\ [][NextCalls]_vars

-----------------------------------------------------------------------------
(* The slicing functions on their own: a buffer is sliced into tmp and tmp   *)
(* is unsliced into output.                                                  *)

\* The 16-byte buffer whose only 1 bit is bit b of byte j (from 0).
OneBitBlock(j, b) == [n \in 1..16 |-> IF n = j + 1 THEN 2^b ELSE 0]

\* The 16-byte buffers sliced.
SliceBlocks ==
    {OneBitBlock(j, b) : j \in 0..15, b \in 0..7}
        \cup {Block(seed) : seed \in 0..MaxBlockSeed}
        \cup {Repeat(255, 16)}

\* The 128-byte buffer whose only 1 bit is bit b of byte j (from 0).
OneBitBlocks(j, b) == [n \in 1..128 |-> IF n = j + 1 THEN 2^b ELSE 0]

\* The 128-byte buffers sliced: a single 1 bit, and eight patterned blocks
\* that differ from one another.
WideBlocks ==
    {OneBitBlocks(j, b) : j \in 0..127, b \in 0..7}
        \cup {[n \in 1..128 |-> (seed + 7 * n + (n * n) \div 3) % 256] :
                 seed \in 0..MaxBlockSeed}
        \cup {[n \in 1..128 |-> 255]}

InitSlice ==
    /\ \/ pc = "bit_slice_1x16" /\ input \in SliceBlocks
       \/ pc = "bit_slice_1x128" /\ input \in WideBlocks
    /\ tmp = <<>> /\ output = <<>>
    /\ key = <<>> /\ rounds = 0 /\ mode = "Encryption" /\ round_keys = <<>>
    /\ i = 0 /\ enc_sk = <<>> /\ dec_sk = <<>> /\ plain = <<>>
    /\ rnd = 0 /\ ops = <<>>
    /\ BcryptIdle /\ X8Idle

BitSlice1x16 ==
    /\ pc = "bit_slice_1x16"
    /\ tmp' = bit_slice_1x16_with_u16(input)
    /\ pc' = "un_bit_slice_1x16"
    /\ UNCHANGED << key, rounds, mode, round_keys, i, enc_sk, dec_sk, input,
                    output, plain, rnd, ops >>
    /\ UNCHANGED << bcryptOnly, x8Only, calls, threads, flow >>

UnBitSlice1x16 ==
    /\ pc = "un_bit_slice_1x16"
    /\ output' = un_bit_slice_1x16_with_u16(tmp)
    /\ pc' = "unsliced_1x16"
    /\ UNCHANGED << key, rounds, mode, round_keys, i, enc_sk, dec_sk, input,
                    tmp, plain, rnd, ops >>
    /\ UNCHANGED << bcryptOnly, x8Only, calls, threads, flow >>

BitSlice1x128 ==
    /\ pc = "bit_slice_1x128"
    /\ tmp' = bit_slice_1x128_with_u32x4(input)
    /\ pc' = "un_bit_slice_1x128"
    /\ UNCHANGED << key, rounds, mode, round_keys, i, enc_sk, dec_sk, input,
                    output, plain, rnd, ops >>
    /\ UNCHANGED << bcryptOnly, x8Only, calls, threads, flow >>

UnBitSlice1x128 ==
    /\ pc = "un_bit_slice_1x128"
    /\ output' = un_bit_slice_1x128_with_u32x4(tmp)
    /\ pc' = "unsliced_1x128"
    /\ UNCHANGED << key, rounds, mode, round_keys, i, enc_sk, dec_sk, input,
                    tmp, plain, rnd, ops >>
    /\ UNCHANGED << bcryptOnly, x8Only, calls, threads, flow >>

NextSlice ==
    \/ BitSlice1x16 \/ UnBitSlice1x16
    \/ BitSlice1x128 \/ UnBitSlice1x128

SpecSlice == InitSlice /\ [][NextSlice]_vars

-----------------------------------------------------------------------------
(* The operations on their own: after a buffer is sliced into tmp, one       *)
(* operation of AesBitValueOps is applied to each of the eight lanes, or one *)
(* operation of AesOps to the state; ops names it.                           *)

\* One of shift_row, inv_shift_row, ror1, ror2, ror3 on every lane of tmp:
\* of u16 when a block was sliced, of u32x4 when eight blocks were.
ApplyLaneOp ==
    /\ ops = <<>>
    /\ \/ /\ pc = "un_bit_slice_1x16"
          /\ \E op \in {"shift_row", "inv_shift_row", "ror1", "ror2", "ror3"} :
                LET f(x) == CASE op = "shift_row" -> shift_row(x)
                              [] op = "inv_shift_row" -> inv_shift_row(x)
                              [] op = "ror1" -> ror1(x)
                              [] op = "ror2" -> ror2(x)
                              [] op = "ror3" -> ror3(x)
                IN  /\ tmp' = << f(tmp[1]), f(tmp[2]), f(tmp[3]), f(tmp[4]),
                                 f(tmp[5]), f(tmp[6]), f(tmp[7]), f(tmp[8]) >>
                    /\ ops' = << op >>
          /\ pc' = "u16_lanes"
       \/ /\ pc = "un_bit_slice_1x128"
          /\ \E op \in {"shift_row", "inv_shift_row", "ror1", "ror2", "ror3"} :
                LET f(x) == CASE op = "shift_row" -> shift_row_u32x4(x)
                              [] op = "inv_shift_row" -> inv_shift_row_u32x4(x)
                              [] op = "ror1" -> ror1_u32x4(x)
                              [] op = "ror2" -> ror2_u32x4(x)
                              [] op = "ror3" -> ror3_u32x4(x)
                IN  /\ tmp' = << f(tmp[1]), f(tmp[2]), f(tmp[3]), f(tmp[4]),
                                 f(tmp[5]), f(tmp[6]), f(tmp[7]), f(tmp[8]) >>
                    /\ ops' = << op >>
          /\ pc' = "u32x4_lanes"
    /\ UNCHANGED << key, rounds, mode, round_keys, i, enc_sk, dec_sk, input,
                    output, plain, rnd >>
    /\ UNCHANGED << bcryptOnly, x8Only, calls, threads, flow >>

\* One of shift_rows, inv_shift_rows, mix_columns, inv_mix_columns on the
\* Gf8<u16> in tmp, which is unsliced next.
ApplyAesOp ==
    /\ ops = <<>>
    /\ pc = "un_bit_slice_1x16"
    /\ \E op \in {"shift_rows", "inv_shift_rows", "mix_columns", "inv_mix_columns"} :
          /\ tmp' = CASE op = "shift_rows" -> shift_rows(tmp)
                      [] op = "inv_shift_rows" -> inv_shift_rows(tmp)
                      [] op = "mix_columns" -> mix_columns(tmp)
                      [] op = "inv_mix_columns" -> inv_mix_columns(tmp)
          /\ ops' = << op >>
    /\ UNCHANGED << key, rounds, mode, round_keys, i, enc_sk, dec_sk, input,
                    output, plain, rnd, pc >>
    /\ UNCHANGED << bcryptOnly, x8Only, calls, threads, flow >>

NextOps ==
    \/ BitSlice1x16 \/ BitSlice1x128
    \/ ApplyLaneOp \/ ApplyAesOp
    \/ UnBitSlice1x16

SpecOps == InitSlice /\ [][NextOps]_vars

-----------------------------------------------------------------------------
(* Properties of the AES cipher *)

\* decrypt_block has returned, after encrypt_block, in this run.
RoundTripDone == pc = "done"

\* C1: for every key of length 16, 24 or 32 and every 16-byte block,
\* decrypt_block of the decryptor built from the key, applied to what
\* encrypt_block of the encryptor built from the same key returned, gives the
\* block back.
RoundTrip == RoundTripDone => plain = input

\* The round trip of the instances whose $rounds is the one create_round_keys
\* takes from key.len().
RoundTripOwnSize ==
    (RoundTripDone /\ KeyParams(Len(key))[2] = rounds) => plain = input

\* C2: constructing an encryptor or decryptor with a key whose length is not
\* 16, 24 or 32 fails at the match on key.len(): control never passes it, no
\* round key is computed and no encryptor or decryptor comes to exist.
InvalidKeyLengthFails ==
    Len(key) \notin {16, 24, 32} =>
        /\ pc \in {"new", "create_round_keys", "panicked"}
        /\ enc_sk = <<>> /\ dec_sk = <<>>
        /\ pc = "panicked" => round_keys = <<>>

InvalidKeyLengthPanicked ==
    /\ pc = "panicked" /\ Len(key) = 17
    /\ enc_sk = <<>> /\ dec_sk = <<>> /\ round_keys = <<>>

\* encrypt_block has returned in this run.
Encrypted ==
    pc \in {"encrypted", "dec_round0", "dec_inv_sub_bytes", "dec_inv_shift_rows",
            "dec_inv_mix_columns", "dec_add_round_key", "dec_last_inv_sub_bytes",
            "dec_last_inv_shift_rows", "dec_last_add_round_key",
            "dec_un_bit_slice", "done"}

\* C3: encrypt_block of the AES-128 encryptor built from the key
\* 000102030405060708090a0b0c0d0e0f turns the block
\* 00112233445566778899aabbccddeeff into 69c4e0d86a7b0430d8cdb78070b4c55a,
\* the ciphertext of FIPS-197 (SubBytes being the AES S-box); the AES-192
\* and AES-256 encryptors give the ciphertexts of FIPS-197 on the keys
\* 00..17 and 00..1f.
Fips197Vector ==
    (Encrypted /\ input = Block(0) /\ KeyParams(Len(key))[2] = rounds
               /\ key = Key(Len(key), 0)) =>
        output = CASE rounds = 10 ->
                        << \h69, \hc4, \he0, \hd8, \h6a, \h7b, \h04, \h30,
                           \hd8, \hcd, \hb7, \h80, \h70, \hb4, \hc5, \h5a >>
                   [] rounds = 12 ->
                        << \hdd, \ha9, \h7c, \ha4, \h86, \h4c, \hdf, \he0,
                           \h6e, \haf, \h70, \ha0, \hec, \h0d, \h71, \h91 >>
                   [] rounds = 14 ->
                        << \h8e, \ha2, \hb7, \hca, \h51, \h67, \h45, \hbf,
                           \hea, \hfc, \h49, \h90, \h4b, \h49, \h60, \h89 >>

Fips197VectorReached ==
    /\ pc = "encrypted" /\ rounds = 10
    /\ key = << 0, 1, 2, 3, 4, 5, 6, 7, 8, 9, 10, 11, 12, 13, 14, 15 >>
    /\ input = << \h00, \h11, \h22, \h33, \h44, \h55, \h66, \h77,
                  \h88, \h99, \haa, \hbb, \hcc, \hdd, \hee, \hff >>
    /\ output[1] = \h69 /\ output[16] = \h5a

\* The operation sequence of encryption with round keys 0..nr.
EncryptSequence(nr) ==
    [n \in 1..(4 * nr) |->
        IF n = 1 THEN << "AddRoundKey", 0 >>
        ELSE IF n = 4 * nr THEN << "AddRoundKey", nr >>
        ELSE CASE n % 4 = 2 -> << "SubBytes" >>
               [] n % 4 = 3 -> << "ShiftRows" >>
               [] n % 4 = 0 -> << "MixColumns" >>
               [] n % 4 = 1 -> << "AddRoundKey", n \div 4 >>]

\* The operation sequence of decryption with round keys 0..nr.
DecryptSequence(nr) ==
    [n \in 1..(4 * nr) |->
        IF n = 1 THEN << "AddRoundKey", nr >>
        ELSE IF n = 4 * nr THEN << "AddRoundKey", 0 >>
        ELSE CASE n % 4 = 2 -> << "InvSubBytes" >>
               [] n % 4 = 3 -> << "InvShiftRows" >>
               [] n % 4 = 0 -> << "InvMixColumns" >>
               [] n % 4 = 1 -> << "AddRoundKey", nr - (n \div 4) >>]

IsAddRoundKey(op) == op[1] = "AddRoundKey"

\* The round keys a sequence of operations uses, in order.
KeysUsed(seq) ==
    LET arks == SelectSeq(seq, IsAddRoundKey) IN [n \in 1..Len(arks) |-> arks[n][2]]

Count(seq, op) == Cardinality({n \in 1..Len(seq) : seq[n] = op})

InEncryptCore ==
    pc \in {"enc_sub_bytes", "enc_shift_rows", "enc_mix_columns",
            "enc_add_round_key", "enc_last_sub_bytes", "enc_last_shift_rows",
            "enc_last_add_round_key"}

InDecryptCore ==
    pc \in {"dec_inv_sub_bytes", "dec_inv_shift_rows", "dec_inv_mix_columns",
            "dec_add_round_key", "dec_last_inv_sub_bytes",
            "dec_last_inv_shift_rows", "dec_last_add_round_key"}

\* C9: encryption with Nr+1 round keys performs AddRoundKey(0), then for
\* r = 1..Nr-1 ascending SubBytes, ShiftRows, MixColumns, AddRoundKey(r), then
\* SubBytes, ShiftRows, AddRoundKey(Nr), and nothing else: what the core has
\* done is at every moment a prefix of that sequence and is all of it when the
\* core returns, so that every round key is used once, in ascending order,
\* SubBytes runs Nr times and MixColumns Nr-1 times, never in the last round.
EncryptOrder ==
    LET nr == Len(enc_sk) - 1 IN
    /\ InEncryptCore =>
          /\ Len(ops) < 4 * nr
          /\ ops = SubSeq(EncryptSequence(nr), 1, Len(ops))
    /\ pc = "enc_un_bit_slice" =>
          /\ nr \in {10, 12, 14}
          /\ ops = EncryptSequence(nr)
          /\ KeysUsed(ops) = [n \in 1..(nr + 1) |-> n - 1]
          /\ Count(ops, << "SubBytes" >>) = nr
          /\ Count(ops, << "MixColumns" >>) = nr - 1
          /\ ops[Len(ops) - 1] = << "ShiftRows" >>

EncryptOrderReached ==
    /\ pc = "enc_un_bit_slice" /\ Len(enc_sk) = 15
    /\ Len(ops) = 56 /\ ops[56] = << "AddRoundKey", 14 >>

\* C10: decryption with Nr+1 round keys performs AddRoundKey(Nr), then for
\* r = Nr-1 down to 1 InvSubBytes, InvShiftRows, InvMixColumns,
\* AddRoundKey(r), then InvSubBytes, InvShiftRows, AddRoundKey(0), and
\* nothing else: what the core has done is at every moment a prefix of that
\* sequence and is all of it when the core returns, so that every round key is
\* used once, in descending order.
DecryptOrder ==
    LET nr == Len(dec_sk) - 1 IN
    /\ InDecryptCore =>
          /\ Len(ops) < 4 * nr
          /\ ops = SubSeq(DecryptSequence(nr), 1, Len(ops))
    /\ pc = "dec_un_bit_slice" =>
          /\ nr \in {10, 12, 14}
          /\ ops = DecryptSequence(nr)
          /\ KeysUsed(ops) = [n \in 1..(nr + 1) |-> nr + 1 - n]
          /\ Count(ops, << "InvMixColumns" >>) = nr - 1

DecryptOrderReached ==
    /\ pc = "dec_un_bit_slice" /\ Len(dec_sk) = 13
    /\ Len(ops) = 48 /\ ops[1] = << "AddRoundKey", 12 >>
    /\ ops[48] = << "AddRoundKey", 0 >>


-----------------------------------------------------------------------------
(* Properties of bcrypt *)

\* The lengths satisfy the preconditions of bcrypt.
PreconditionsHold ==
    Len(salt) = 16 /\ Len(input) >= 1 /\ Len(input) <= 72 /\ Len(output) = 24

\* C4: bcrypt checks its preconditions at entry: with a salt whose length is
\* not 16, a password of length 0 or above 72, or an output buffer whose
\* length is not 24, the call ends in a fatal assertion with no Blowfish
\* operation run and no byte of output written; with the preconditions
\* satisfied (a password of length 1 or of length 72 among them) the call
\* does not fail.
PreconditionsAsserted ==
    /\ ~PreconditionsHold =>
          /\ pc \in {"bcrypt", "panicked"}
          /\ bf_ops = <<>> /\ written = {} /\ output = prior
    /\ PreconditionsHold => pc # "panicked"
    /\ (PreconditionsHold /\ Len(input) \in {1, 72}) =>
          pc \in {"bcrypt", "bcrypt_setup", "setup_loop", "encrypt", "done"}

PreconditionsAssertedReached ==
    /\ pc = "panicked" /\ Len(input) = 73 /\ Len(salt) = 16 /\ Len(output) = 24
    /\ bf_ops = <<>> /\ written = {}

\* n = 2^k
RECURSIVE IsTwoToThe(_, _)
IsTwoToThe(n, k) ==
    IF k = 0 THEN n = 1 ELSE n % 2 = 0 /\ IsTwoToThe(n \div 2, k - 1)

\* The loop of bcrypt_setup has ended.
SetupEnded == pc \in {"encrypt", "done"}

\* C5: for every cost in [0, 31] the key setup executes its loop body
\* exactly 2^cost times, and the count 1 << cost the loop runs to is 2^cost,
\* a positive number.
SetupRunsTwoToTheCost ==
    SetupEnded => /\ setup_n > 0
                  /\ IsTwoToThe(setup_n, cost)
                  /\ IsTwoToThe(setup_i, cost)

\* The count of the costs below 31.
SetupRunsTwoToTheCostBelow31 ==
    (SetupEnded /\ cost < 31) => /\ setup_n > 0
                                 /\ IsTwoToThe(setup_n, cost)
                                 /\ IsTwoToThe(setup_i, cost)

\* C6: the 24 bytes bcrypt leaves depend only on cost, salt and password: a
\* successful call has written every one of the 24 bytes of output, and a
\* second call with the same cost, salt and password leaves the buffer the
\* first call left, whatever the buffer held before either call.
OutputDependsOnInputsOnly ==
    pc = "done" =>
        /\ written = 1..24
        /\ first # <<>> => output = first[2]

OutputDependsOnInputsOnlyReached ==
    /\ pc = "done" /\ first # <<>>
    /\ prior # first[1] /\ prior[24] # first[1][24]
    /\ output = first[2]

\* The Blowfish operations of a call whose setup loop runs n times.
BlowfishSequence(n) ==
    [m \in 1..(2 + 2 * n + 192) |->
        IF m = 1 THEN << "init" >>
        ELSE IF m = 2 THEN << "salted_expand_key", "salt", "password" >>
        ELSE IF m <= 2 + 2 * n
               THEN IF m % 2 = 1 THEN << "expand_key", "password" >>
                                 ELSE << "expand_key", "salt" >>
        ELSE << "encrypt_round", (m - 3 - 2 * n) \div 64 >>]

IsKeyExpansion(op) == op[1] \in {"salted_expand_key", "expand_key"}

\* C7: one call issues init, then salted_expand_key(salt, password) once,
\* then in every setup round expand_key(password) before expand_key(salt),
\* then the encryptions of pair 0, those of pair 1 and those of pair 2; no
\* key expansion follows the first encryption.
BlowfishOrder ==
    /\ pc = "setup_loop" =>
          bf_ops = SubSeq(BlowfishSequence(setup_i), 1, 2 + 2 * setup_i)
    /\ pc = "encrypt" =>
          bf_ops = SubSeq(BlowfishSequence(setup_i), 1,
                          2 + 2 * setup_i + 64 * chunk + enc_i)
    /\ pc = "done" =>
          /\ bf_ops = BlowfishSequence(setup_i)
          /\ \A m \in 1..Len(bf_ops) :
                IsKeyExpansion(bf_ops[m]) =>
                    \A k \in 1..m : bf_ops[k][1] # "encrypt_round"

BlowfishOrderReached ==
    /\ pc = "done" /\ setup_i = 4
    /\ Len(bf_ops) = 202
    /\ bf_ops[9] = << "expand_key", "password" >>
    /\ bf_ops[10] = << "expand_key", "salt" >>
    /\ bf_ops[11] = << "encrypt_round", 0 >>

\* encrypt_round under st applied n times to the pair p, each result the
\* next input.
RECURSIVE Iterated(_, _, _)
Iterated(st, p, n) ==
    IF n = 0 THEN p
    ELSE LET q == encrypt_round(st, p[1], p[2])
         IN  IF q[1] = q[1] THEN Iterated(st, q, n - 1) ELSE q

\* Pair j of the constant OrpheanBeholderScryDoubt.
ConstantPair(j) ==
    LET words == << << \h68, \h70, \h72, \h4f >>, << \h42, \h6e, \h61, \h65 >>,
                    << \h6c, \h6f, \h68, \h65 >>, << \h53, \h72, \h65, \h64 >>,
                    << \h44, \h79, \h72, \h63 >>, << \h74, \h62, \h75, \h6f >> >>
    IN  << words[2 * j + 1], words[2 * j + 2] >>

\* C8: each pair j = 0, 1, 2 starts as words 2j and 2j+1 of the constant, is
\* passed through encrypt_round 64 times, each result the next input,
\* untouched by the work on the other pairs, and bytes 8j..8j+3 and
\* 8j+4..8j+7 of output are the big-endian bytes of its final left and right
\* words.
PairsEncrypted64Times ==
    /\ pc = "encrypt" =>
          /\ \A j \in 0..2 : j > chunk =>
                << ctext[2 * j + 1], ctext[2 * j + 2] >> = ConstantPair(j)
          /\ enc_i = 0 =>
                << ctext[2 * chunk + 1], ctext[2 * chunk + 2] >> = ConstantPair(chunk)
          /\ enc_i <= 64
          /\ enc_i = 64 =>
                << ctext[2 * chunk + 1], ctext[2 * chunk + 2] >>
                    = Iterated(state, ConstantPair(chunk), 64)
    /\ pc = "done" =>
          \A j \in 0..2 :
              LET p == Iterated(state, ConstantPair(j), 64)
              IN  /\ << ctext[2 * j + 1], ctext[2 * j + 2] >> = p
                  /\ SubSeq(output, 8 * j + 1, 8 * j + 4)
                        = << p[1][4], p[1][3], p[1][2], p[1][1] >>
                  /\ SubSeq(output, 8 * j + 5, 8 * j + 8)
                        = << p[2][4], p[2][3], p[2][2], p[2][1] >>

PairsEncrypted64TimesReached ==
    /\ pc = "done" /\ cost = 1 /\ Len(input) = 72
    /\ SubSeq(output, 17, 20) = WriteU32BE(ctext[5])
    /\ ctext[5] # Ctext[5]


-----------------------------------------------------------------------------
(* Properties of the key schedule *)

\* SubWord: the S-box on each byte of a word.
SubWordOfBytes(w) == << SBox[w[1]], SBox[w[2]], SBox[w[3]], SBox[w[4]] >>

\* Rcon[k] (k from 0), a word whose low byte alone is not zero.
RconByte(k) == << \h01, \h02, \h04, \h08, \h10, \h20, \h40, \h80, \h1b, \h36 >>[k + 1]

\* Word n (from 0) of a schedule: word n mod 4 of round key n div 4.
ScheduleWord(rk, n) == rk[(n \div 4) + 1][(n % 4) + 1]

\* Word n of the schedule rk is the one the AES recurrence gives for the key
\* k of nk words.
StandardWord(rk, k, nk, n) ==
    IF n < nk
      THEN ScheduleWord(rk, n) = << k[4 * n + 1], k[4 * n + 2], k[4 * n + 3], k[4 * n + 4] >>
      ELSE LET prev == ScheduleWord(rk, n - 1)
               back == ScheduleWord(rk, n - nk)
               t == IF n % nk = 0
                      THEN LET s == SubWordOfBytes(<< prev[2], prev[3], prev[4], prev[1] >>)
                           IN  << XorNat(s[1], RconByte((n \div nk) - 1)), s[2], s[3], s[4] >>
                    ELSE IF nk = 8 /\ n % nk = 4 THEN SubWordOfBytes(prev)
                    ELSE prev
           IN  ScheduleWord(rk, n) = << XorNat(back[1], t[1]), XorNat(back[2], t[2]),
                                        XorNat(back[3], t[3]), XorNat(back[4], t[4]) >>

\* C11: key expansion follows the AES recurrence: the first Nk words are the
\* key bytes read as little-endian words, and every word i in Nk..4(Nr+1)-1 is
\* W[i-Nk] xor t, with t = SubWord(rotate_right(W[i-1], 8)) xor Rcon[i/Nk - 1]
\* when i mod Nk = 0, t = SubWord(W[i-1]) when Nk = 8 and i mod Nk = 4, and
\* t = W[i-1] otherwise; word i is word i mod 4 of round key i div 4.  It
\* holds of the words written so far while the expansion runs and of all
\* 4(Nr+1) words when it has ended.
KeyExpansionRecurrence ==
    LET nk == KeyParams(Len(key))[1]
        nr == KeyParams(Len(key))[2]
    IN  /\ pc = "expand" =>
              \A n \in 0..(i - 1) : StandardWord(round_keys, key, nk, n)
        /\ (pc = "slice_keys" /\ mode = "Encryption") =>
              \A n \in 0..(4 * (nr + 1) - 1) : StandardWord(round_keys, key, nk, n)

KeyExpansionRecurrenceReached ==
    /\ pc = "slice_keys" /\ mode = "Encryption"
    /\ Len(key) = 32 /\ key[2] = 1 /\ rounds = 14
    /\ round_keys[15][4] = << \h6d, \h68, \hde, \h36 >>


\* Round key r (from 0) of the encryption schedule, read back from the
\* encryptor's sk.
EncryptionRoundKey(r) ==
    LET w == un_bit_slice_4x4_with_u16(enc_sk[r + 1])
    IN  << w[1], w[2], w[3], w[4] >>

\* The decryption schedule is complete: create_round_keys is about to return
\* it to the decryptor's new.
DecryptionScheduleDone == pc = "slice_keys" /\ mode = "Decryption"

\* C12: for the same key the decryption schedule differs from the encryption
\* schedule only in rounds 1..Nr-1 (Nr the rounds of the key's length): every
\* word of those rounds is inv_mcol of the word of the encryption schedule,
\* every other round key, 0 and Nr among them, is equal word for word; the
\* pass is made for KeyType::Decryption only, the encryption schedule is the
\* plain expansion of the key.
DecryptionScheduleFrame ==
    LET nk == KeyParams(Len(key))[1]
        nr == KeyParams(Len(key))[2]
    IN  /\ pc = "decryption_keys" => mode = "Decryption"
        /\ DecryptionScheduleDone =>
              /\ Len(round_keys) = Len(enc_sk)
              /\ \A r \in 0..(Len(round_keys) - 1) :
                    LET e == EncryptionRoundKey(r)
                    IN  round_keys[r + 1] =
                            IF r >= 1 /\ r <= nr - 1
                              THEN << inv_mcol(e[1]), inv_mcol(e[2]),
                                      inv_mcol(e[3]), inv_mcol(e[4]) >>
                              ELSE e
              /\ \A n \in 0..(4 * (nr + 1) - 1) :
                    StandardWord([r \in 1..Len(enc_sk) |-> EncryptionRoundKey(r - 1)],
                                 key, nk, n)

DecryptionScheduleFrameReached ==
    /\ DecryptionScheduleDone /\ Len(key) = 24 /\ rounds = 12
    /\ round_keys[1] = EncryptionRoundKey(0)
    /\ round_keys[13] = EncryptionRoundKey(12)
    /\ round_keys[2] # EncryptionRoundKey(1)
    /\ round_keys[12] # EncryptionRoundKey(11)


-----------------------------------------------------------------------------
(* Properties of slicing *)

\* Bit b (from 0) of the natural x.
BitOf(x, b) == (x \div 2^b) % 2

\* C13: for every 16-byte buffer, un_bit_slice_1x16_with_u16 of
\* bit_slice_1x16_with_u16 of the buffer writes the buffer; in words,
\* un_bit_slice_4x4_with_u16(bit_slice_4x4_with_u16(a, b, c, d)) is
\* (a, b, c, d), a..d being the four little-endian words of the buffer.
NarrowSliceRoundTrip ==
    /\ pc = "un_bit_slice_1x16" =>
          un_bit_slice_4x4_with_u16(tmp) =
              << << input[1], input[2], input[3], input[4] >>,
                 << input[5], input[6], input[7], input[8] >>,
                 << input[9], input[10], input[11], input[12] >>,
                 << input[13], input[14], input[15], input[16] >> >>
    /\ pc = "unsliced_1x16" => output = input

NarrowSliceRoundTripReached ==
    /\ pc = "unsliced_1x16" /\ output = input
    /\ input[7] = 32 /\ tmp[6] # 0

\* C20, as the layout is in bit_slice_4x4_with_u16: the 16 bytes being four
\* little-endian columns, byte j = 4c + r is row r of column c, and bit i of
\* byte j is bit 4r + c of the plane x_i, for every j in 0..15 and i in 0..7.
NarrowLayoutRowMajor ==
    pc = "un_bit_slice_1x16" =>
        \A j \in 0..15 : \A b \in 0..7 :
            BitOf(input[j + 1], b) = BitOf(tmp[b + 1], 4 * (j % 4) + (j \div 4))

NarrowLayoutRowMajorReached ==
    /\ pc = "un_bit_slice_1x16"
    /\ input = OneBitBlock(6, 5)
    /\ tmp = << 0, 0, 0, 0, 0, 512, 0, 0 >>

\* C20, as stated: bit i of byte j is bit j of the plane x_i, for every j in
\* 0..15 and i in 0..7.
NarrowLayoutByteJToBitJ ==
    pc = "un_bit_slice_1x16" =>
        \A j \in 0..15 : \A b \in 0..7 :
            BitOf(input[j + 1], b) = BitOf(tmp[b + 1], j)


\* C14: the rotations and masks shared by bit_slice_1x128_with_u32x4 and
\* un_bit_slice_1x128_with_u32x4, applied twice to eight four-row lanes, give
\* the eight lanes back, and for every 128-byte buffer unslicing the sliced
\* buffer writes the buffer.
WideSliceRoundTrip ==
    /\ pc = "un_bit_slice_1x128" =>
          /\ Butterfly(Butterfly(tmp)) = tmp
          /\ \A k \in 0..7 : Butterfly(tmp)[k + 1] = read_row_major(input, 16 * k)
    /\ pc = "unsliced_1x128" => output = input

WideSliceRoundTripReached ==
    /\ pc = "unsliced_1x128" /\ output = input
    /\ input = OneBitBlocks(16 * 3 + 6, 5)
    /\ tmp[6][3][2] = 8

-----------------------------------------------------------------------------
(* Properties of the wide backend *)

\* Block k (from 0) of a 128-byte buffer.
BlockOf(buf, k) == [n \in 1..16 |-> buf[16 * k + n]]

\* C15: for every block index k in 0..7, block k of what encrypt_block_x8
\* writes (wide slicing, encrypt_core over the wide schedule, wide unslicing)
\* is what encrypt_block writes for block k of the input, under the same key;
\* eight copies of a block give eight copies of its encryption.
WideAgreesWithNarrow ==
    pc = "x8_encrypted" =>
        \A k \in 0..7 :
            BlockOf(input_x8, k) = input => BlockOf(output_x8, k) = output

WideAgreesWithNarrowReached ==
    /\ pc = "x8_encrypted"
    /\ Len(key) = 24 /\ Len(sk_x8) = 13
    /\ BlockOf(input_x8, 5) = input /\ BlockOf(input_x8, 4) # input
    /\ BlockOf(output_x8, 5) = output /\ BlockOf(output_x8, 4) # output
    /\ output # input

\* C16: for every round r, unslicing round key r of the wide schedule gives
\* eight identical 16-byte blocks, each the narrow unslicing of round key r of
\* the narrow schedule.
SchedulesAgree ==
    (pc = "new" /\ sk_x8 # <<>> /\ enc_sk # <<>>) =>
        /\ Len(sk_x8) = Len(enc_sk)
        /\ \A r \in 1..Len(sk_x8) :
              LET wide == un_bit_slice_1x128_with_u32x4(sk_x8[r])
                  narrow == un_bit_slice_1x16_with_u16(enc_sk[r])
              IN  \A k \in 0..7 : BlockOf(wide, k) = narrow

SchedulesAgreeReached ==
    /\ sk_x8 # <<>> /\ enc_sk # <<>>
    /\ pc = "new" /\ mode = "Decryption"
    /\ Len(key) = 32 /\ Len(sk_x8) = 15
    /\ BlockOf(un_bit_slice_1x128_with_u32x4(sk_x8[15]), 7)
           = << \h24, \hfc, \h79, \hcc, \hbf, \h09, \h79, \he9,
                \h37, \h1a, \hc2, \h3c, \h6d, \h68, \hde, \h36 >>

-----------------------------------------------------------------------------
(* Properties of the callers *)

\* Both instances have been returned by new.
InstancesBuilt == enc_sk # <<>> /\ dec_sk # <<>>

\* C17: once new has returned, no step of any sequence of encrypt_block and
\* decrypt_block calls changes the schedule of either instance, and a call
\* that returns has written what every earlier call of the same method on the
\* same input has written: the output is a function of the key and of the
\* input of the call.
ScheduleIsTheOnlyState ==
    [][InstancesBuilt =>
          /\ enc_sk' = enc_sk /\ dec_sk' = dec_sk
          /\ calls' # calls =>
                LET call == calls'[Len(calls')]
                IN  \A n \in 1..Len(calls) :
                        (calls[n][1] = call[1] /\ calls[n][2] = call[2])
                            => calls[n][3] = call[3]]_vars

ScheduleIsTheOnlyStateReached ==
    /\ InstancesBuilt
    /\ Len(calls) = 3
    /\ calls[1][1] = "encrypt_block" /\ calls[2][1] = "encrypt_block"
    /\ calls[3][1] = "encrypt_block"
    /\ calls[1][2] = calls[3][2] /\ calls[1][2] # calls[2][2]
    /\ calls[1][3] = calls[3][3] /\ calls[1][3] # calls[2][3]

\* C18: threads sharing the instances, each with buffers of its own: under
\* every interleaving of the steps of their encrypt_block and decrypt_block
\* calls, a call that has returned has written what the same call wrote when
\* it ran alone.
ConcurrentCallsAsAlone ==
    pc = "threads" =>
        \A t \in 1..Len(threads) :
            threads[t].at = "returned" =>
                \A n \in 1..Len(calls) :
                    (calls[n][1] = threads[t].method /\ calls[n][2] = threads[t].input)
                        => calls[n][3] = threads[t].output

ConcurrentCallsAsAloneReached ==
    /\ pc = "threads"
    /\ threads[1].method = "encrypt_block" /\ threads[2].method = "decrypt_block"
    /\ threads[1].at = "rounds" /\ threads[1].rnd = 5
    /\ threads[2].at = "returned"
    /\ threads[2].input = calls[2][2] /\ threads[2].output = calls[2][3]
    /\ threads[2].output # ZeroBlock

-----------------------------------------------------------------------------
(* Properties of the control flow *)

\* What create_round_keys does at its step n (from 1) for a key of len bytes,
\* a schedule of type_rounds + 1 round keys and the key type key_type, in so
\* far as its steps are determined by these three.
FlowOfLength(len, type_rounds, key_type, n) ==
    LET kp == KeyParams(len)
        key_words == kp[1]
        nr == kp[2]
        at == key_words + (n - 3)
    IN  IF kp = <<>> THEN << "panic" >>
        ELSE IF n = 1 THEN << "match", kp >>
        ELSE IF n = 2 THEN << "copy", len \div 4 >>
        ELSE IF at < 4 * (nr + 1)
          THEN IF at \div 4 >= type_rounds + 1 THEN << "panic" >>
               ELSE << "expand", at - 1, at - key_words, at,
                       IF at % key_words = 0
                         THEN << "rotate_right", 8, "sub_word", "RCON",
                                 (at \div key_words) - 1 >>
                       ELSE IF len = 32 /\ at % key_words = 4
                         THEN << "sub_word" >>
                       ELSE << >> >>
        ELSE IF at = 4 * (nr + 1)
          THEN << "if let KeyType::Decryption", key_type = "Decryption" >>
        ELSE << "inv_mcol", at - 4 * (nr + 1) >>

\* C19: what key expansion and the cores do is determined by the length of
\* the key (with the type of the instance and the key type): for all keys of
\* one length and all blocks, create_round_keys takes the same steps with the
\* same branch outcomes, word indices, RCON indices and rotate amounts, and
\* encrypt_core and decrypt_core apply the same operations with the same
\* round-key indices. (At pc = "new" the steps recorded are those of the
\* instance built before, of the other key type.)
ControlFlowOfKeyLength ==
    /\ pc # "new" =>
          \A n \in 1..Len(flow) : flow[n] = FlowOfLength(Len(key), rounds, mode, n)
    /\ (pc = "slice_keys" /\ KeyParams(Len(key)) # <<>>) =>
          Len(flow) = 3 + 4 * (KeyParams(Len(key))[2] + 1) - KeyParams(Len(key))[1]
                        + (IF mode = "Decryption" THEN KeyParams(Len(key))[2] - 1 ELSE 0)
    /\ (InEncryptCore \/ pc = "enc_un_bit_slice") =>
          ops = SubSeq(EncryptSequence(rounds), 1, Len(ops))
    /\ (InDecryptCore \/ pc = "dec_un_bit_slice") =>
          ops = SubSeq(DecryptSequence(rounds), 1, Len(ops))
    /\ pc \in {"enc_un_bit_slice", "dec_un_bit_slice"} => Len(ops) = 4 * rounds

ControlFlowOfKeyLengthReached ==
    /\ pc = "dec_un_bit_slice"
    /\ Len(key) = 32 /\ key[1] = 101 /\ rounds = 14
    /\ Len(flow) = 68
    /\ flow[3] = << "expand", 7, 0, 8, << "rotate_right", 8, "sub_word", "RCON", 0 >> >>
    /\ flow[7] = << "expand", 11, 4, 12, << "sub_word" >> >>
    /\ flow[8] = << "expand", 12, 5, 13, << >> >>
    /\ flow[68] = << "inv_mcol", 13 >>
    /\ Len(ops) = 56


-----------------------------------------------------------------------------
(* Properties of the wide slicing kernel *)

\* The lanes t_0 .. t_7 loaded from the eight blocks of input.
LanesOfInput ==
    [k \in 1..8 |-> read_row_major(input, 16 * (k - 1))]

\* C21 (as amended): for every plane n in 0..7 the plane x_n produced by
\* bit_slice_1x128_with_u32x4 is the or (the terms share no bit, so also the
\* xor) over k in 0..7 of t_k, rotated left by k - n bits within each 32-bit
\* row (right by n - k when k < n), masked with bit_k = 0x01010101 << k, the
\* mask of the source lane: bit k of every byte of x_n is bit n of the same
\* byte of t_k.
WideKernelMasksBySourceLane ==
    pc = "un_bit_slice_1x128" =>
        \A n \in 0..7 : \A r \in 1..4 : \A c \in 1..4 : \A k \in 0..7 :
            BitOf(tmp[n + 1][r][c], k) = BitOf(LanesOfInput[k + 1][r][c], n)

\* The one 1 bit of the input, bit 5 of byte 6 of block 2, is bit 2 of the
\* byte at row 2 and column 1 of plane 5.
WideKernelMasksBySourceLaneReached ==
    /\ pc = "un_bit_slice_1x128"
    /\ input = OneBitBlocks(2 * 16 + 6, 5)
    /\ tmp[5 + 1][2 + 1][1 + 1] = 4

\* C21 (as stated): every term of x_n is masked with bitmask_n, the mask of
\* the plane.
WideKernelMasksByPlane ==
    pc = "un_bit_slice_1x128" => tmp = ButterflyMaskedByPlane(LanesOfInput)

-----------------------------------------------------------------------------
(* Properties of the operations *)

\* C23: for every block B, the state byte at row r and column c being input
\* byte 4c + r, unslicing shift_rows(slice(B)) gives the block whose byte at
\* (r, c) is B's byte at (r, (c + r) mod 4): row 0 unchanged, rows 1, 2, 3
\* rotated left by 1, 2, 3 byte positions.
NarrowShiftRowsIsShiftRows ==
    (pc = "unsliced_1x16" /\ ops = << "shift_rows" >>) =>
        \A r \in 0..3 : \A c \in 0..3 :
            output[4 * c + r + 1] = input[4 * ((c + r) % 4) + r + 1]

\* The one 1 bit of the block, bit 3 of the byte at row 1 and column 2, is
\* at row 1 and column 1 after shift_rows.
NarrowShiftRowsIsShiftRowsReached ==
    /\ pc = "unsliced_1x16"
    /\ ops = << "shift_rows" >>
    /\ input = OneBitBlock(4 * 2 + 1, 3)
    /\ output = OneBitBlock(4 * 1 + 1, 3)

\* The number of 1 bits of a lane: a u16, or the four rows of a u32x4.
RECURSIVE Ones(_)
Ones(x) == IF x = 0 THEN 0 ELSE (x % 2) + Ones(x \div 2)
OnesOfLane(x) ==
    IF pc' = "u16_lanes" THEN Ones(x)
    ELSE Ones(x[1][1]) + Ones(x[1][2]) + Ones(x[1][3]) + Ones(x[1][4])
         + Ones(x[2][1]) + Ones(x[2][2]) + Ones(x[2][3]) + Ones(x[2][4])
         + Ones(x[3][1]) + Ones(x[3][2]) + Ones(x[3][3]) + Ones(x[3][4])
         + Ones(x[4][1]) + Ones(x[4][2]) + Ones(x[4][3]) + Ones(x[4][4])

\* Row 0 of a lane: the low four bits of a u16, the first row of a u32x4.
Row0OfLane(x) == IF pc' = "u16_lanes" THEN x % 16 ELSE x[1]

\* An operation of AesBitValueOps is applied to the lanes in this step.
LaneOpApplied(op) == ops = <<>> /\ ops' = << op >>

\* C24: on every u16 lane and every u32x4 lane x, inv_shift_row(shift_row(x))
\* = x and shift_row(inv_shift_row(x)) = x; both keep the number of 1 bits
\* and leave row 0 as it is.
InvShiftRowInvertsShiftRow ==
    [][\A k \in 1..8 :
          /\ LaneOpApplied("shift_row") =>
                /\ pc' = "u16_lanes" => inv_shift_row(tmp'[k]) = tmp[k]
                /\ pc' = "u32x4_lanes" => inv_shift_row_u32x4(tmp'[k]) = tmp[k]
                /\ OnesOfLane(tmp'[k]) = OnesOfLane(tmp[k])
                /\ Row0OfLane(tmp'[k]) = Row0OfLane(tmp[k])
          /\ LaneOpApplied("inv_shift_row") =>
                /\ pc' = "u16_lanes" => shift_row(tmp'[k]) = tmp[k]
                /\ pc' = "u32x4_lanes" => shift_row_u32x4(tmp'[k]) = tmp[k]
                /\ OnesOfLane(tmp'[k]) = OnesOfLane(tmp[k])
                /\ Row0OfLane(tmp'[k]) = Row0OfLane(tmp[k])
      ]_vars

\* inv_shift_row has moved the one 1 bit of a wide lane, bit 5 of the byte at
\* row 2 and column 1 of block 2, to column 3 of its row: the lane is plane 5,
\* where the bit of block 2 is bit 2.
InvShiftRowInvertsShiftRowReached ==
    /\ pc = "u32x4_lanes"
    /\ ops = << "inv_shift_row" >>
    /\ input = OneBitBlocks(2 * 16 + 6, 5)
    /\ tmp[5 + 1][2 + 1] = << 0, 0, 0, 4 >>
    /\ shift_row_u32x4(tmp[5 + 1])[2 + 1] = << 0, 4, 0, 0 >>

\* The byte at row r of the product of the circulant matrix (02 03 01 01)
\* and the column <<b0, b1, b2, b3>> over GF(2^8) modulo 0x11b.
MixedByte(col, r) ==
    XorNat(XorNat(GfMul(2, col[r + 1]), GfMul(3, col[((r + 1) % 4) + 1])),
           XorNat(col[((r + 2) % 4) + 1], col[((r + 3) % 4) + 1]))

\* C25: for every block B, narrow-unslicing mix_columns(slice(B)) is every
\* column of B multiplied by the circulant matrix (02 03 01 01) over GF(2^8)
\* with the reduction polynomial 0x11b.
MixColumnsIsMixColumns ==
    (pc = "unsliced_1x16" /\ ops = << "mix_columns" >>) =>
        \A c \in 0..3 : \A r \in 0..3 :
            output[4 * c + r + 1] =
                MixedByte(<< input[4 * c + 1], input[4 * c + 2],
                             input[4 * c + 3], input[4 * c + 4] >>, r)

\* The one 1 bit of the block is bit 7 of byte 1 of column 2, 0x80: the
\* column becomes 03 * 80, 02 * 80, 80, 80 = 9b 1b 80 80, where the reduction
\* shows.
MixColumnsIsMixColumnsReached ==
    /\ pc = "unsliced_1x16"
    /\ ops = << "mix_columns" >>
    /\ input = OneBitBlock(4 * 2 + 1, 7)
    /\ SubSeq(output, 4 * 2 + 1, 4 * 2 + 4) = << \h9b, \h1b, \h80, \h80 >>

\* C26: for all words a, b, c, d, bit_slice_4x4_with_u16 of inv_mcol(a),
\* inv_mcol(b), inv_mcol(c), inv_mcol(d) is inv_mix_columns of
\* bit_slice_4x4_with_u16(a, b, c, d); the words are the four little-endian
\* words of the block that was sliced.
InvMcolIsInvMixColumns ==
    (pc = "un_bit_slice_1x16" /\ ops = << "inv_mix_columns" >>) =>
        tmp = bit_slice_4x4_with_u16(inv_mcol(ReadU32LE(input, 0)),
                                     inv_mcol(ReadU32LE(input, 4)),
                                     inv_mcol(ReadU32LE(input, 8)),
                                     inv_mcol(ReadU32LE(input, 12)))

\* The one 1 bit of the block is bit 0 of byte 0 of word b, 0x00000001:
\* inv_mcol(b) is 0x0b0d090e, whose bytes 0e 09 0d 0b have bit 0 at rows 1, 2
\* and 3 of column 1, the lane bits 5, 9 and 13 of plane 0.
InvMcolIsInvMixColumnsReached ==
    /\ pc = "un_bit_slice_1x16"
    /\ ops = << "inv_mix_columns" >>
    /\ input = OneBitBlock(4, 0)
    /\ inv_mcol(ReadU32LE(input, 4)) = << \h0e, \h09, \h0d, \h0b >>
    /\ tmp[1] = 2^5 + 2^9 + 2^13

\* ror1 on the lane y, whichever its type, and on a u16 lane the u16 rotated
\* right by n bits, every bit taken on its own.
Ror1OfLane(y) == IF pc' = "u16_lanes" THEN ror1(y) ELSE ror1_u32x4(y)
BitsRotatedRight(x, y, n) ==
    \A p \in 0..15 : BitOf(y, p) = BitOf(x, (p + n) % 16)

\* C27: on every u16 lane and every u32x4 lane x, ror2(x) = ror1(ror1(x)),
\* ror3(x) = ror1(ror1(ror1(x))) and ror1 four times gives x; on the wide
\* lane ror1 moves row r to row (r - 1) mod 4, and on the narrow lane ror1,
\* ror2, ror3 rotate the word right by 4, 8 and 12 bits.
RotationsGeneratedByRor1 ==
    [][\A k \in 1..8 :
          LET x == tmp[k]
              y == tmp'[k]
          IN  /\ LaneOpApplied("ror1") =>
                    /\ Ror1OfLane(Ror1OfLane(Ror1OfLane(y))) = x
                    /\ pc' = "u16_lanes" =>
                          /\ BitsRotatedRight(x, y, 4)
                          /\ ror1(y) = ror2(x)
                          /\ ror1(ror1(y)) = ror3(x)
                    /\ pc' = "u32x4_lanes" =>
                          /\ \A r \in 0..3 : y[((r + 3) % 4) + 1] = x[r + 1]
                          /\ ror1_u32x4(y) = ror2_u32x4(x)
                          /\ ror1_u32x4(ror1_u32x4(y)) = ror3_u32x4(x)
              /\ LaneOpApplied("ror2") =>
                    /\ y = Ror1OfLane(Ror1OfLane(x))
                    /\ pc' = "u16_lanes" => BitsRotatedRight(x, y, 8)
              /\ LaneOpApplied("ror3") =>
                    /\ y = Ror1OfLane(Ror1OfLane(Ror1OfLane(x)))
                    /\ pc' = "u16_lanes" => BitsRotatedRight(x, y, 12)
      ]_vars

\* ror3 has moved the one 1 bit of a narrow lane, bit 3 of the byte at row 1
\* and column 2 (lane bit 6 of plane 3), to row 2 of its column, lane bit 10.
RotationsGeneratedByRor1Reached ==
    /\ pc = "u16_lanes"
    /\ ops = << "ror3" >>
    /\ input = OneBitBlock(4 * 2 + 1, 3)
    /\ tmp[3 + 1] = 2^10

-----------------------------------------------------------------------------
(* Properties of the constructors *)

\* C28: new of AesSafe128*, AesSafe192* and AesSafe256* fails unless the key
\* has 16, 24 and 32 bytes respectively: an instance that was returned has
\* the schedule of its own size, expanded with the Nk and Nr of the type, and
\* none of its Nr + 1 round keys is the all-zero default left in place.
ConstructorsAcceptOwnSizeOnly ==
    \A sk \in {enc_sk, dec_sk} :
        sk # <<>> =>
            /\ KeyParams(Len(key)) # <<>>
            /\ KeyParams(Len(key))[2] = rounds
            /\ Len(sk) = rounds + 1
            /\ \A r \in 1..Len(sk) : sk[r] # << 0, 0, 0, 0, 0, 0, 0, 0 >>

-----------------------------------------------------------------------------
(* Properties of the indices of the key expansion *)

\* The key has 16, 24 or 32 bytes and the array has the Nr + 1 round keys of
\* that size: 11, 13 or 15.
MatchingArray == Len(key) \in {16, 24, 32} /\ rounds = Len(key) \div 4 + 6

\* Step n of create_round_keys writes word w of round_keys.
WritesWord(n, w) ==
    \/ flow[n][1] = "copy" /\ w < flow[n][2]
    \/ flow[n][1] = "expand" /\ flow[n][4] = w

\* C29: for a key of 16, 24 or 32 bytes expanded into the array of its Nr + 1
\* round keys, create_round_keys does not panic and every index it uses is in
\* bounds: the words read and written have their round key in 0..Nr, the
\* RCON index is in 0..9 wherever RCON is read, the decryption pass touches
\* the round keys 1..Nr - 1 only; and once the expansion is over every one of
\* the 4(Nr + 1) words has been written exactly once.
KeyExpansionInBounds ==
    MatchingArray =>
        /\ pc # "panicked"
        /\ \A n \in 1..Len(flow) :
              /\ flow[n][1] = "copy" => (flow[n][2] - 1) \div 4 \in 0..rounds
              /\ flow[n][1] = "expand" =>
                    /\ \A at \in 2..4 : flow[n][at] >= 0 /\ flow[n][at] \div 4 \in 0..rounds
                    /\ Len(flow[n][5]) = 5 => flow[n][5][5] \in 0..(Len(RCON) - 1)
              /\ flow[n][1] = "inv_mcol" => flow[n][2] \in 1..(rounds - 1)
        /\ pc = "slice_keys" =>
              \A w \in 0..(4 * (rounds + 1) - 1) :
                  Cardinality({n \in 1..Len(flow) : WritesWord(n, w)}) = 1

\* The decryption schedule of a 16-byte key is complete: word 40 was written
\* with RCON[9], the last entry of RCON, and the pass ended at round key 9.
KeyExpansionInBoundsReached ==
    /\ MatchingArray
    /\ Len(key) = 16
    /\ pc = "slice_keys"
    /\ mode = "Decryption"
    /\ Len(flow) = 52
    /\ flow[39] = << "expand", 39, 36, 40, << "rotate_right", 8, "sub_word", "RCON", 9 >> >>
    /\ flow[42] = << "expand", 42, 39, 43, << >> >>
    /\ flow[52] = << "inv_mcol", 9 >>

=============================================================================
